---- MODULE Spec2Model ----
(***************************************************************************)
(* Model of the resume selection pipeline of src/main.py: the bullet       *)
(* normalizer, the group conflict resolver, backfill, the date ordering    *)
(* key, the local default selection, the steps of main() and               *)
(* build_payload(), and of render_resume_latex() of src/generate.py.       *)
(*                                                                         *)
(* Python values are represented as follows.                               *)
(*   str            a tuple of one-character strings ("Jan" is             *)
(*                  <<"J","a","n">>) wherever the code looks inside the    *)
(*                  string (date labels); a TLA+ string where the code     *)
(*                  only compares or copies it (ids, texts, groups)        *)
(*   dict           a record; a key the dict lacks is a field the record   *)
(*                  lacks, so d.get(k, default) is Get(d, k, default)      *)
(*   list           a sequence (Python index i is position i + 1)          *)
(*   None           the string NoneVal (a group), NoEntry (an entry)       *)
(*   a JSON value that is not an integer, where the oracle should have     *)
(*                  sent a bullet index: the number NonInteger             *)
(*   an exception nothing catches: pc = "aborted", the end of the run      *)
(***************************************************************************)
EXTENDS Integers, Sequences, FiniteSets, TLC

VARIABLES
    pc,                          \* position in main() / in the driver of a pure function
    jobs,                        \* main: jobs (jobs.json)
    projects,                    \* main: projects (projects.json)
    additional_experience_jobs,  \* main: additional_experience_jobs (additional.json)
    args,                        \* main: the parsed command line (ids and flags)
    jobs_to_send,                \* main: pool handed to call_openai_experiences
    selected_jobs,               \* main: experiences_result["selected_jobs"]
    regular_jobs,                \* main: regular_jobs
    additional_experience_list,  \* main: additional_experience_list
    selected_projects,           \* main: selected_projects
    selection,                   \* main: selection
    payload,                     \* main: payload
    calls,                       \* the oracle calls made so far, in order: which
                                 \* call, about which entry, whether it faulted,
                                 \* how many entries it picked
    arg,                         \* argument of the pure function under test
    ret                          \* its return value

vars == <<pc, jobs, projects, additional_experience_jobs, args, jobs_to_send,
          selected_jobs, regular_jobs, additional_experience_list,
          selected_projects, selection, payload, calls, arg, ret>>

mainVars == <<jobs, projects, additional_experience_jobs, args, jobs_to_send,
              selected_jobs, regular_jobs, additional_experience_list,
              selected_projects, selection, payload, calls>>

----------------------------------------------------------------------------
(* Python built-ins *)

NoneVal == "<None>"

\* bool(x) of a str-or-None value: None and "" are falsy
Truthy(x) == x # NoneVal /\ x # ""

\* d.get(k, default)
Get(d, k, default) == IF k \in DOMAIN d THEN d[k] ELSE default

Min(a, b) == IF a <= b THEN a ELSE b

Range(s) == {s[i] : i \in DOMAIN s}

\* lst[:n] for n >= 0
Prefix(s, n) == SubSeq(s, 1, Min(n, Len(s)))

\* list(range(n))
RangeList(n) == [i \in 1..n |-> i - 1]

\* 0 <= idx < len(lst)
ValidIndex(idx, lst) == 0 <= idx /\ idx < Len(lst)

\* lst[idx] for a valid idx
At(lst, idx) == lst[idx + 1]

\* "no entry": what dict.get(id) gives for an id the pool lacks (falsy, like None)
NoEntry == <<>>

\* {e["id"]: e for e in pool}.get(id): the last entry with that id, else None
RECURSIVE Lookup(_, _)
Lookup(pool, id) ==
    IF pool = <<>> THEN NoEntry
    ELSE IF pool[Len(pool)].id = id THEN pool[Len(pool)]
    ELSE Lookup(SubSeq(pool, 1, Len(pool) - 1), id)

\* a or b, for entries-or-None
OrElse(a, b) == IF a # NoEntry THEN a ELSE b

\* stands for a JSON value of the oracle's bullet_indices that is not a number
\* (the string "a"): "0 <= idx" raises TypeError for it
NonInteger == -99

HasNonInteger(indices) == \E k \in DOMAIN indices : indices[k] = NonInteger

----------------------------------------------------------------------------
(* _normalize_bullet: str -> {"text": s}; dict -> {"text": get("text", ""),
   "group": get("group")}.  A raw str bullet is a record with kind "str". *)

_normalize_bullet(bullet) ==
    IF bullet.kind = "str"
    THEN [text |-> bullet.text]
    ELSE [text |-> Get(bullet, "text", ""), group |-> Get(bullet, "group", NoneVal)]

\* normalized.get("group")
GroupOf(normalized) == Get(normalized, "group", NoneVal)

----------------------------------------------------------------------------
(* _filter_conflicting_bullets: keep a bullet without (truthy) group, or
   whose group was not seen before. *)

RECURSIVE FilterLoop(_, _, _)
FilterLoop(bullets, seen_groups, filtered) ==
    IF bullets = <<>> THEN filtered
    ELSE LET bullet == Head(bullets)
             group  == GroupOf(bullet)
         IN  IF Truthy(group)
             THEN IF group \notin seen_groups
                  THEN FilterLoop(Tail(bullets), seen_groups \cup {group},
                                  Append(filtered, bullet))
                  ELSE FilterLoop(Tail(bullets), seen_groups, filtered)
             ELSE FilterLoop(Tail(bullets), seen_groups, Append(filtered, bullet))

FilterFirstOnlyMut(bullets) ==
    \* mutant: the seen-group test is dropped
    bullets

_filter_conflicting_bullets(bullets) == FilterLoop(bullets, {}, <<>>)

----------------------------------------------------------------------------
(* _fill_bullets_to_minimum *)

\* groups used by the valid indices of a list
UsedGroups(all_bullets, indices) ==
    {GroupOf(_normalize_bullet(At(all_bullets, indices[k]))) :
        k \in {j \in DOMAIN indices :
                 /\ ValidIndex(indices[j], all_bullets)
                 /\ Truthy(GroupOf(_normalize_bullet(At(all_bullets, indices[j]))))}}

\* mutant of the loop: the "already selected" and the group tests are lost
RECURSIVE FillLoopMut(_, _, _, _, _, _)
FillLoopMut(all_bullets, current, actual_min, idx, new_indices, used_groups) ==
    IF idx >= Len(all_bullets) THEN new_indices
    ELSE IF Len(new_indices) >= actual_min THEN new_indices
    ELSE FillLoopMut(all_bullets, current, actual_min, idx + 1,
                     Append(new_indices, idx), used_groups)

\* the loop "for idx in range(len(all_bullets))" from idx on
RECURSIVE FillLoop(_, _, _, _, _, _)
FillLoop(all_bullets, current, actual_min, idx, new_indices, used_groups) ==
    IF idx >= Len(all_bullets) THEN new_indices
    ELSE IF idx \in Range(current)
    THEN FillLoop(all_bullets, current, actual_min, idx + 1, new_indices, used_groups)
    ELSE IF Len(new_indices) >= actual_min THEN new_indices
    ELSE LET group == GroupOf(_normalize_bullet(At(all_bullets, idx)))
         IN  IF Truthy(group) /\ group \in used_groups
             THEN FillLoop(all_bullets, current, actual_min, idx + 1,
                           new_indices, used_groups)
             ELSE FillLoop(all_bullets, current, actual_min, idx + 1,
                           Append(new_indices, idx),
                           IF Truthy(group) THEN used_groups \cup {group}
                                            ELSE used_groups)

\* mutant: the loop does not stop at the floor
FillNoStopMut(entry_data, current_bullet_indices, min_bullets) ==
    LET all_bullets == Get(entry_data, "bullets", <<>>)
        actual_min  == Min(min_bullets, Len(all_bullets))
    IN  IF Len(all_bullets) = 0 THEN current_bullet_indices
        ELSE IF Len(current_bullet_indices) >= actual_min THEN current_bullet_indices
        ELSE FillLoop(all_bullets, current_bullet_indices, Len(all_bullets), 0,
                      current_bullet_indices,
                      UsedGroups(all_bullets, current_bullet_indices))

\* mutant: the floor actual_min is one too high
FillOffByOneMut(entry_data, current_bullet_indices, min_bullets) ==
    LET all_bullets == Get(entry_data, "bullets", <<>>)
        actual_min  == Min(min_bullets, Len(all_bullets)) + 1
    IN  IF Len(all_bullets) = 0 THEN current_bullet_indices
        ELSE IF Len(current_bullet_indices) >= actual_min THEN current_bullet_indices
        ELSE FillLoop(all_bullets, current_bullet_indices, actual_min, 0,
                      current_bullet_indices,
                      UsedGroups(all_bullets, current_bullet_indices))

_fill_bullets_to_minimum(entry_data, current_bullet_indices, min_bullets) ==
    LET all_bullets == Get(entry_data, "bullets", <<>>)
        actual_min  == Min(min_bullets, Len(all_bullets))
    IN  IF Len(all_bullets) = 0 THEN current_bullet_indices
        ELSE IF Len(current_bullet_indices) >= actual_min THEN current_bullet_indices
        ELSE FillLoop(all_bullets, current_bullet_indices, actual_min, 0,
                      current_bullet_indices,
                      UsedGroups(all_bullets, current_bullet_indices))

----------------------------------------------------------------------------
(* str methods used by _parse_date_for_sorting, on tuples of characters *)

UpperCase == <<"A","B","C","D","E","F","G","H","I","J","K","L","M",
               "N","O","P","Q","R","S","T","U","V","W","X","Y","Z">>
LowerCase == <<"a","b","c","d","e","f","g","h","i","j","k","l","m",
               "n","o","p","q","r","s","t","u","v","w","x","y","z">>
Digits    == <<"0","1","2","3","4","5","6","7","8","9">>
Whitespace == {" ", "\t", "\n"}

\* c.lower()
LowerChar(c) ==
    IF \E i \in DOMAIN UpperCase : UpperCase[i] = c
    THEN LowerCase[CHOOSE i \in DOMAIN UpperCase : UpperCase[i] = c]
    ELSE c

\* s.lower()
Lower(s) == [i \in DOMAIN s |-> LowerChar(s[i])]

IsDigit(c) == \E i \in DOMAIN Digits : Digits[i] = c

DigitVal(c) == (CHOOSE i \in DOMAIN Digits : Digits[i] = c) - 1

\* s.strip() == ""
IsBlank(s) == \A i \in DOMAIN s : s[i] \in Whitespace

\* s.split(): the maximal runs of non-whitespace characters
RECURSIVE SplitLoop(_, _, _)
SplitLoop(s, word, parts) ==
    IF s = <<>> THEN (IF word = <<>> THEN parts ELSE Append(parts, word))
    ELSE IF Head(s) \in Whitespace
    THEN SplitLoop(Tail(s), <<>>, IF word = <<>> THEN parts ELSE Append(parts, word))
    ELSE SplitLoop(Tail(s), Append(word, Head(s)), parts)

Split(s) == SplitLoop(s, <<>>, <<>>)

\* re.match(r'^\d{4}$', part)
IsYearToken(part) == Len(part) = 4 /\ \A i \in 1..4 : IsDigit(part[i])

\* int(part) of a 4-digit token
IntOf(part) ==
    DigitVal(part[1]) * 1000 + DigitVal(part[2]) * 100
        + DigitVal(part[3]) * 10 + DigitVal(part[4])

\* the dict "months" of _parse_date_for_sorting
months ==
    { <<(<<"j","a","n">>), 1>>,  <<(<<"j","a","n","u","a","r","y">>), 1>>,
      <<(<<"f","e","b">>), 2>>,  <<(<<"f","e","b","r","u","a","r","y">>), 2>>,
      <<(<<"m","a","r">>), 3>>,  <<(<<"m","a","r","c","h">>), 3>>,
      <<(<<"a","p","r">>), 4>>,  <<(<<"a","p","r","i","l">>), 4>>,
      <<(<<"m","a","y">>), 5>>,
      <<(<<"j","u","n">>), 6>>,  <<(<<"j","u","n","e">>), 6>>,
      <<(<<"j","u","l">>), 7>>,  <<(<<"j","u","l","y">>), 7>>,
      <<(<<"a","u","g">>), 8>>,  <<(<<"a","u","g","u","s","t">>), 8>>,
      <<(<<"s","e","p">>), 9>>,  <<(<<"s","e","p","t","e","m","b","e","r">>), 9>>,
      <<(<<"o","c","t">>), 10>>, <<(<<"o","c","t","o","b","e","r">>), 10>>,
      <<(<<"n","o","v">>), 11>>, <<(<<"n","o","v","e","m","b","e","r">>), 11>>,
      <<(<<"d","e","c">>), 12>>, <<(<<"d","e","c","e","m","b","e","r">>), 12>> }

\* part in months
IsMonthToken(part) == \E m \in months : m[1] = part

\* months[part]
MonthOf(part) == (CHOOSE m \in months : m[1] = part)[2]

\* the words that mean "still running"
PresentWords ==
    { <<"p","r","e","s","e","n","t">>, <<"c","u","r","r","e","n","t">>, <<"n","o","w">> }

PRESENT_KEY == <<9999, 12>>
EMPTY_KEY   == <<0, 0>>

\* the loop "for part in parts" with its two locals
RECURSIVE ParseLoop(_, _, _)
ParseLoop(parts, year, month) ==
    IF parts = <<>> THEN <<year, month>>
    ELSE LET part == Head(parts)
         IN  IF IsYearToken(part) THEN ParseLoop(Tail(parts), IntOf(part), month)
             ELSE IF IsMonthToken(part) THEN ParseLoop(Tail(parts), year, MonthOf(part))
             ELSE ParseLoop(Tail(parts), year, month)

\* mutant: "Present" is not recognised as the most recent date
ParseDateNoPresentMut(date_str) ==
    IF date_str = <<>> \/ IsBlank(date_str) THEN EMPTY_KEY
    ELSE LET ym == ParseLoop(Split(Lower(date_str)), 0, 0)
         IN  IF ym[1] > 0 /\ ym[2] = 0 THEN <<ym[1], 12>> ELSE ym

\* mutant: a year without month counts as January
ParseDateDefaultJanMut(date_str) ==
    IF date_str = <<>> \/ IsBlank(date_str) THEN EMPTY_KEY
    ELSE IF Lower(date_str) \in PresentWords THEN PRESENT_KEY
    ELSE LET ym == ParseLoop(Split(Lower(date_str)), 0, 0)
         IN  IF ym[1] > 0 /\ ym[2] = 0 THEN <<ym[1], 1>> ELSE ym

_parse_date_for_sorting(date_str) ==
    IF date_str = <<>> \/ IsBlank(date_str) THEN EMPTY_KEY
    ELSE IF Lower(date_str) \in PresentWords THEN PRESENT_KEY
    ELSE LET ym == ParseLoop(Split(Lower(date_str)), 0, 0)
         IN  IF ym[1] > 0 /\ ym[2] = 0 THEN <<ym[1], 12>> ELSE ym

\* Python's order of (year, month) tuples
KeyLess(a, b) == a[1] < b[1] \/ (a[1] = b[1] /\ a[2] < b[2])

----------------------------------------------------------------------------
(* Drivers of the pure functions: the argument is drawn from a bounded set,
   the function is applied, its result is kept in ret.  main()'s variables
   are not used by them. *)

MaxBullets == 3      \* bullets of an entry / of a list handed to the resolver
MaxFillLen == 2      \* length of the index list handed to backfill
MaxFloor   == 4      \* largest min_bullets tried
MaxTokens  == 2      \* whitespace-separated tokens of a date label

MainIdle ==
    /\ jobs = <<>> /\ projects = <<>> /\ additional_experience_jobs = <<>>
    /\ args = <<>> /\ jobs_to_send = <<>> /\ selected_jobs = <<>>
    /\ regular_jobs = <<>> /\ additional_experience_list = <<>>
    /\ selected_projects = <<>> /\ selection = <<>> /\ payload = <<>>
    /\ calls = <<>>

\* all sequences over S of length at most n
SeqsUpTo(S, n) == UNION {[1..k -> S] : k \in 0..n}

\* normalized bullets: from a str (no group key) and from a dict
NormalizedBullets ==
    {[text |-> "A"]}
        \cup [text : {"A", "B"}, group : {NoneVal, "", "g1", "g2"}]

InitFilter ==
    /\ pc = "filter_call"
    /\ arg \in SeqsUpTo(NormalizedBullets, MaxBullets)
    /\ ret = <<>>
    /\ MainIdle

CallFilter ==
    /\ pc = "filter_call"
    /\ ret' = _filter_conflicting_bullets(arg)
    /\ pc' = "filter_done"
    /\ UNCHANGED <<arg, mainVars>>

NextFilter == CallFilter

SpecFilter == InitFilter /\ [][NextFilter]_vars

\* raw bullets as they stand in the data files
RawBullets ==
    { [kind |-> "str",  text |-> "t"],
      [kind |-> "dict", text |-> "t", group |-> ""],
      [kind |-> "dict", text |-> "t", group |-> "g1"],
      [kind |-> "dict", text |-> "t", group |-> "g2"] }

InitFill ==
    /\ pc = "fill_call"
    /\ arg \in [entry_data : {[bullets |-> b] : b \in SeqsUpTo(RawBullets, MaxBullets)},
                current_bullet_indices : SeqsUpTo(-1..MaxBullets, MaxFillLen),
                min_bullets : 0..MaxFloor]
    /\ ret = <<>>
    /\ MainIdle

\* fill(entry, L, floor)
CallFill ==
    /\ pc = "fill_call"
    /\ ret' = <<_fill_bullets_to_minimum(arg.entry_data, arg.current_bullet_indices,
                                         arg.min_bullets)>>
    /\ pc' = "fill_once"
    /\ UNCHANGED <<arg, mainVars>>

\* fill(entry, fill(entry, L, floor), floor)
CallFillAgain ==
    /\ pc = "fill_once"
    /\ ret' = Append(ret, _fill_bullets_to_minimum(arg.entry_data, ret[1],
                                                   arg.min_bullets))
    /\ pc' = "fill_twice"
    /\ UNCHANGED <<arg, mainVars>>

NextFill == CallFill \/ CallFillAgain

SpecFill == InitFill /\ [][NextFill]_vars

\* tokens of date labels: year-like, month-like, present-like, other
DateTokens ==
    { <<"0","0","0","0">>, <<"0","0","0","1">>, <<"2","0","2","4">>,
      <<"9","9","9","8">>, <<"9","9","9","9">>,
      <<"2","0","2">>, <<"2","0","2","4","5">>,
      <<"J","a","n">>, <<"j","a","n","u","a","r","y">>, <<"M","A","R","C","H">>,
      <<"D","e","c">>, <<"d","e","c","e","m","b","e","r">>, <<"S","e","p","t">>,
      <<"P","r","e","s","e","n","t">>, <<"n","o","w">>, <<"-","-">> }

\* " ".join(tokens)
RECURSIVE Join(_)
Join(tokens) ==
    IF tokens = <<>> THEN <<>>
    ELSE IF Len(tokens) = 1 THEN tokens[1]
    ELSE tokens[1] \o <<" ">> \o Join(Tail(tokens))

DateLabels == {Join(t) : t \in SeqsUpTo(DateTokens, MaxTokens)}

\* the labels the special cases are about: running, and empty or blank
SpecialLabels ==
    { <<"p","r","e","s","e","n","t">>, <<"P","r","e","s","e","n","t">>,
      <<"P","R","E","S","E","N","T">>, <<"c","u","r","r","e","n","t">>,
      <<"C","u","r","r","e","n","t">>, <<"n","o","w">>, <<"N","o","w">>,
      <<"N","O","W">>,
      <<>>, <<" ">>, <<" ", "\t">>, <<"\n">> }

InitParse ==
    /\ pc = "parse_call"
    /\ arg \in [special : SpecialLabels, label : DateLabels]
    /\ ret = <<>>
    /\ MainIdle

CallParse ==
    /\ pc = "parse_call"
    /\ ret' = [special |-> _parse_date_for_sorting(arg.special),
               label   |-> _parse_date_for_sorting(arg.label)]
    /\ pc' = "parse_done"
    /\ UNCHANGED <<arg, mainVars>>

NextParse == CallParse

SpecParse == InitParse /\ [][NextParse]_vars

----------------------------------------------------------------------------
(* Sorting.  Python's sort is stable, also with reverse=True: entries whose
   keys are equal keep their order. *)

\* Python's order of tuples of integers (of equal length): lexicographic
RECURSIVE TupleLess(_, _)
TupleLess(a, b) ==
    /\ a # <<>>
    /\ b # <<>>
    /\ \/ Head(a) < Head(b)
       \/ Head(a) = Head(b) /\ TupleLess(Tail(a), Tail(b))

\* mutant: the list is left in the order it was built in
SortedByKeyIdentityMut(s, keys, reverse) == s

\* sorted(s, key=..., reverse=...), given the key of every element: the keys
\* are computed once and elements with equal keys keep their order
SortedByKey(s, keys, reverse) ==
    LET before(i, j) == IF reverse THEN TupleLess(keys[j], keys[i])
                        ELSE TupleLess(keys[i], keys[j])
        pos  == [i \in DOMAIN s |->
                    1 + Cardinality({j \in DOMAIN s :
                            \/ before(j, i)
                            \/ (~before(i, j) /\ j < i)})] \o <<>>
    IN  [k \in DOMAIN s |-> s[CHOOSE i \in DOMAIN s : pos[i] = k]]

\* the key (-priority, end-date key, start-date key) of the local orderings,
\* its two (year, month) pairs written out in place
PriorityDateKey(x) ==
    << -Get(x, "priority", 0) >>
        \o _parse_date_for_sorting(Get(x, "end_date", <<>>))
        \o _parse_date_for_sorting(Get(x, "start_date", <<>>))

\* _build_default_selection._sorted_entries, and the sort of remaining_jobs
_sorted_entries(entries) ==
    SortedByKey(entries,
                [i \in DOMAIN entries |-> PriorityDateKey(entries[i])] \o <<>>,
                TRUE)

\* the key (end-date key, start-date key) of the experience payloads
JobPayloadKey(x) ==
    _parse_date_for_sorting(Get(x, "end_date", <<>>))
        \o _parse_date_for_sorting(Get(x, "start_date", <<>>))

\* x.get("end_date", "") or x.get("start_date", "")
EndOrStart(x) ==
    IF Get(x, "end_date", <<>>) # <<>> THEN Get(x, "end_date", <<>>)
    ELSE Get(x, "start_date", <<>>)

\* the key of the project payloads
ProjectPayloadKey(x) ==
    _parse_date_for_sorting(EndOrStart(x))
        \o _parse_date_for_sorting(Get(x, "start_date", <<>>))

----------------------------------------------------------------------------
(* _build_default_selection *)

DEFAULT_FALLBACK_JOBS == 4
DEFAULT_FALLBACK_PROJECTS == 3
DEFAULT_FALLBACK_JOB_BULLETS == 4
DEFAULT_FALLBACK_PROJECT_BULLETS == 2

\* the loop over the sorted entries: stop at max_entries, skip entries
\* without bullets
RECURSIVE DefaultLoop(_, _, _, _)
DefaultLoop(entries, picked, max_entries, max_bullets) ==
    IF entries = <<>> \/ Len(picked) >= max_entries THEN picked
    ELSE LET bullets == Get(Head(entries), "bullets", <<>>)
         IN  IF bullets = <<>>
             THEN DefaultLoop(Tail(entries), picked, max_entries, max_bullets)
             ELSE DefaultLoop(Tail(entries),
                      Append(picked,
                             [id |-> Head(entries).id,
                              bullet_indices |-> RangeList(Min(Len(bullets), max_bullets))]),
                      max_entries, max_bullets)

_build_default_selection(jobs_, projects_) ==
    [selected_jobs |->
        DefaultLoop(_sorted_entries(jobs_), <<>>,
                    DEFAULT_FALLBACK_JOBS, DEFAULT_FALLBACK_JOB_BULLETS),
     selected_projects |->
        DefaultLoop(_sorted_entries(projects_), <<>>,
                    DEFAULT_FALLBACK_PROJECTS, DEFAULT_FALLBACK_PROJECT_BULLETS)]

----------------------------------------------------------------------------
(* build_payload *)

JOB_REFILL_MIN == 4          \* "Refill jobs to 4 bullets"
ADDITIONAL_REFILL_MIN == 3   \* "Refill additional experience jobs to 3 bullets"

\* {**normalized, "source_type": .., "source_id": .., "original_rank": ..,
\*  "original_index": ..}
WithMetadata(normalized, source_type, source_id, rank, idx) ==
    IF "group" \in DOMAIN normalized
    THEN [text |-> normalized.text, group |-> normalized.group,
          source_type |-> source_type, source_id |-> source_id,
          original_rank |-> rank, original_index |-> idx]
    ELSE [text |-> normalized.text,
          source_type |-> source_type, source_id |-> source_id,
          original_rank |-> rank, original_index |-> idx]

\* the bullets one selection item contributes: its valid indices, in ranked
\* order, with their rank (position in bullet_indices)
RECURSIVE ItemBullets(_, _, _, _, _)
ItemBullets(entry, source_type, source_id, indices, rank) ==
    IF rank >= Len(indices) THEN <<>>
    ELSE LET idx  == At(indices, rank)
             rest == ItemBullets(entry, source_type, source_id, indices, rank + 1)
         IN  IF ValidIndex(idx, Get(entry, "bullets", <<>>))
             THEN <<WithMetadata(_normalize_bullet(At(entry.bullets, idx)),
                                 source_type, source_id, rank, idx)>> \o rest
             ELSE rest

\* the concatenation of a list of lists
RECURSIVE Flatten(_)
Flatten(lists) == IF lists = <<>> THEN <<>> ELSE Head(lists) \o Flatten(Tail(lists))

\* "for item in items: entry = find(item.id); if not entry: continue; ...",
\* given the entry found for every item (NoEntry: none)
CollectBullets(items, entries, source_type) ==
    Flatten([k \in DOMAIN items |->
                IF entries[k] = NoEntry THEN <<>>
                ELSE ItemBullets(entries[k], source_type,
                                 Get(items[k], "id", NoneVal),
                                 Get(items[k], "bullet_indices", <<>>), 0)])

\* bullets_by_source[source_id]: the collected bullets of that source id, of
\* any source type
BulletsOfSource(all_bullets, source_id) ==
    SelectSeq(all_bullets, LAMBDA b : b.source_id = source_id)

\* sort(key=lambda x: x[0]) of the (original_rank, text) pairs
\* [text for _, text in job_bullets_map[job_id]] after the sort
RankedTexts(filtered) ==
    LET ranked == SortedByKey(filtered,
                              [i \in DOMAIN filtered |-> <<filtered[i].original_rank>>],
                              FALSE)
    IN  [i \in DOMAIN ranked |-> ranked[i].text]

\* the texts of a list of indices of an entry (invalid indices are skipped)
TextsOfIndices(entry, indices) ==
    LET valid == SelectSeq(indices,
                     LAMBDA idx : ValidIndex(idx, Get(entry, "bullets", <<>>)))
    IN  [i \in DOMAIN valid |-> _normalize_bullet(At(entry.bullets, valid[i])).text]

\* the bullet texts of one source after filtering, sorting and refill.
\* owned: bullets_by_source has the id and its first bullet is of the wanted
\* type (only then does the map of that type get the filtered bullets, and
\* the kept indices if the type is a job).
FinalTexts(entry, source_bullets, owned, refill, refill_min) ==
    LET filtered == IF owned THEN _filter_conflicting_bullets(source_bullets) ELSE <<>>
        current  == RankedTexts(filtered)
        kept     == [i \in DOMAIN filtered |-> filtered[i].original_index]
    IN  IF refill /\ Len(current) < refill_min
        THEN TextsOfIndices(entry, _fill_bullets_to_minimum(entry, kept, refill_min))
        ELSE current

\* a collection loop of build_payload raises: "if 0 <= idx < len(...)" meets a
\* non-integer index of an item whose entry exists
CollectRaises(items, entries) ==
    \E k \in DOMAIN items :
        /\ entries[k] # NoEntry
        /\ HasNonInteger(Get(items[k], "bullet_indices", <<>>))

\* build_payload raises TypeError instead of returning
BuildPayloadRaises(jobs_, projects_, selection_, additional_) ==
    LET sel_jobs     == Get(selection_, "selected_jobs", <<>>)
        sel_projects == Get(selection_, "selected_projects", <<>>)
        sel_addl     == Get(selection_, "additional_experience", <<>>)
    IN  \/ CollectRaises(sel_jobs,
                         [k \in DOMAIN sel_jobs |->
                             Lookup(jobs_, Get(sel_jobs[k], "id", NoneVal))])
        \/ CollectRaises(sel_projects,
                         [k \in DOMAIN sel_projects |->
                             Lookup(projects_, Get(sel_projects[k], "id", NoneVal))])
        \/ CollectRaises(sel_addl,
                         [k \in DOMAIN sel_addl |->
                             OrElse(Lookup(additional_, Get(sel_addl[k], "id", NoneVal)),
                                    Lookup(jobs_, Get(sel_addl[k], "id", NoneVal)))])

build_payload(jobs_, projects_, selection_, force_additional_experience, additional_) ==
    LET id_to_job(id)            == Lookup(jobs_, id)
        id_to_project(id)        == Lookup(projects_, id)
        id_to_additional_job(id) == Lookup(additional_, id)
        additional_or_job(id)    == OrElse(id_to_additional_job(id), id_to_job(id))
        sel_jobs     == Get(selection_, "selected_jobs", <<>>)
        sel_projects == Get(selection_, "selected_projects", <<>>)
        sel_addl     == Get(selection_, "additional_experience", <<>>)
        all_bullets_with_metadata ==
            CollectBullets(sel_jobs,
                           [k \in DOMAIN sel_jobs |->
                               id_to_job(Get(sel_jobs[k], "id", NoneVal))], "job")
                \o CollectBullets(sel_projects,
                                  [k \in DOMAIN sel_projects |->
                                      id_to_project(Get(sel_projects[k], "id", NoneVal))],
                                  "project")
        BySource(id) == BulletsOfSource(all_bullets_with_metadata, id)
        Owned(id, source_type) ==
            /\ Truthy(id)
            /\ BySource(id) # <<>>
            /\ BySource(id)[1].source_type = source_type
        job_bullets_map(id) ==
            FinalTexts(id_to_job(id), BySource(id), Owned(id, "job"), TRUE, JOB_REFILL_MIN)
        project_bullets_map(id) ==
            FinalTexts(id_to_project(id), BySource(id), Owned(id, "project"), FALSE, 0)
        JobEntry(item) ==
            LET job == id_to_job(Get(item, "id", NoneVal))
            IN  [title      |-> Get(job, "title", ""),
                 start_date |-> Get(job, "start_date", <<>>),
                 end_date   |-> Get(job, "end_date", <<"P","r","e","s","e","n","t">>),
                 bullets    |-> job_bullets_map(Get(item, "id", NoneVal))]
        ProjectEntry(item) ==
            LET pr == id_to_project(Get(item, "id", NoneVal))
            IN  [name       |-> Get(pr, "name", ""),
                 start_date |-> Get(pr, "start_date", <<>>),
                 end_date   |-> Get(pr, "end_date", <<>>),
                 bullets    |-> project_bullets_map(Get(item, "id", NoneVal))]
        additional_bullets_with_metadata ==
            CollectBullets(sel_addl,
                           [k \in DOMAIN sel_addl |->
                               additional_or_job(Get(sel_addl[k], "id", NoneVal))],
                           "additional_job")
        AddlBySource(id) == BulletsOfSource(additional_bullets_with_metadata, id)
        additional_job_bullets_map(id) ==
            FinalTexts(additional_or_job(id), AddlBySource(id),
                       Truthy(id) /\ AddlBySource(id) # <<>>, TRUE, ADDITIONAL_REFILL_MIN)
        AdditionalEntry(item) ==
            LET job == additional_or_job(Get(item, "id", NoneVal))
            IN  [title      |-> Get(job, "title", ""),
                 start_date |-> Get(job, "start_date", <<>>),
                 end_date   |-> Get(job, "end_date", <<"P","r","e","s","e","n","t">>),
                 bullets    |-> additional_job_bullets_map(Get(item, "id", NoneVal))]
        shown_jobs ==
            SelectSeq(sel_jobs,
                LAMBDA item : /\ id_to_job(Get(item, "id", NoneVal)) # NoEntry
                              /\ job_bullets_map(Get(item, "id", NoneVal)) # <<>>)
        selected_jobs_payload ==
            [k \in DOMAIN shown_jobs |-> JobEntry(shown_jobs[k])] \o <<>>
        shown_projects ==
            SelectSeq(sel_projects,
                LAMBDA item : /\ id_to_project(Get(item, "id", NoneVal)) # NoEntry
                              /\ project_bullets_map(Get(item, "id", NoneVal)) # <<>>)
        selected_projects_payload ==
            [k \in DOMAIN shown_projects |-> ProjectEntry(shown_projects[k])] \o <<>>
        shown_additional ==
            SelectSeq(sel_addl,
                LAMBDA item : /\ additional_or_job(Get(item, "id", NoneVal)) # NoEntry
                              /\ additional_job_bullets_map(Get(item, "id", NoneVal)) # <<>>)
        additional_experience_payload ==
            IF sel_addl # <<>> \/ force_additional_experience
            THEN [k \in DOMAIN shown_additional |-> AdditionalEntry(shown_additional[k])]
                     \o <<>>
            ELSE <<>>
        KeysOf(list) == [k \in DOMAIN list |-> JobPayloadKey(list[k])] \o <<>>
    IN  [experience |->
             SortedByKey(selected_jobs_payload, KeysOf(selected_jobs_payload), TRUE),
         projects |->
             SortedByKey(selected_projects_payload,
                         [k \in DOMAIN selected_projects_payload |->
                             ProjectPayloadKey(selected_projects_payload[k])] \o <<>>,
                         TRUE),
         additional_experience |->
             SortedByKey(additional_experience_payload,
                         KeysOf(additional_experience_payload), TRUE)]

----------------------------------------------------------------------------
(* main(): selection items and the steps between the oracle calls *)

\* item.get("id"), item.get("bullet_indices", [])
ItemId(item)      == Get(item, "id", NoneVal)
ItemIndices(item) == Get(item, "bullet_indices", <<>>)

\* item["bullet_indices"] = indices
WithIndices(item, indices) ==
    IF "id" \in DOMAIN item
    THEN [id |-> item.id, bullet_indices |-> indices]
    ELSE [bullet_indices |-> indices]

\* {x.get("id") for x in seq}
IdsOf(seq) == {Get(seq[i], "id", NoneVal) : i \in DOMAIN seq}

\* mutant: the required ids do not filter the pool
GatherNoFilterMut(jobs_, additional_, a) ==
    LET noted == IF a.additional_experience_note /\ additional_ # <<>>
                 THEN jobs_ \o additional_
                 ELSE jobs_
        jobs_to_send_ids == IdsOf(noted)
        manual == SelectSeq(a.manual_additional_experience_ids,
                      LAMBDA id : id \notin jobs_to_send_ids
                                  /\ Lookup(additional_, id) # NoEntry)
    IN  noted \o [k \in DOMAIN manual |-> Lookup(additional_, manual[k])]

\* jobs_to_send: the pool handed to call_openai_experiences
GatherJobsToSend(jobs_, additional_, a) ==
    LET required == a.required_job_ids
        base  == IF required # <<>>
                 THEN SelectSeq(jobs_, LAMBDA j : j.id \in Range(required))
                          \o SelectSeq(additional_, LAMBDA j : j.id \in Range(required))
                 ELSE jobs_
        noted == IF a.additional_experience_note /\ additional_ # <<>>
                 THEN base \o additional_
                 ELSE base
        jobs_to_send_ids == IdsOf(noted)
        manual == SelectSeq(a.manual_additional_experience_ids,
                      LAMBDA id : id \notin jobs_to_send_ids
                                  /\ Lookup(additional_, id) # NoEntry)
    IN  noted \o [k \in DOMAIN manual |-> Lookup(additional_, manual[k])]

\* jobs_to_send is still the list object "jobs" when neither the required
\* filter nor the append flag built a new list: appending to it appends to jobs
JobsToSendIsJobs(additional_, a) ==
    /\ a.required_job_ids = <<>>
    /\ ~(a.additional_experience_note /\ additional_ # <<>>)

\* additional_experience_ids
AdditionalExperienceIds(additional_, a) ==
    IdsOf(additional_) \cup Range(a.manual_additional_experience_ids)

\* the manually forced ids the oracle did not select, with sequential bullets
ManualItems(additional_, a, selected_jobs_) ==
    LET missing == SelectSeq(a.manual_additional_experience_ids,
                       LAMBDA id : /\ id \notin IdsOf(selected_jobs_)
                                   /\ Lookup(additional_, id) # NoEntry
                                   /\ Get(Lookup(additional_, id), "bullets", <<>>) # <<>>)
    IN  [k \in DOMAIN missing |->
            [id |-> missing[k],
             bullet_indices |->
                 RangeList(Min(3, Len(Lookup(additional_, missing[k]).bullets)))]]

\* "filled_indices = _fill_bullets_to_minimum(...)" for every item whose entry
\* exists, given the entry found for every item (NoEntry: none)
FillItems(items, entries, min_bullets) ==
    [k \in DOMAIN items |->
        IF entries[k] # NoEntry
        THEN WithIndices(items[k],
                 _fill_bullets_to_minimum(entries[k], ItemIndices(items[k]), min_bullets))
        ELSE items[k]]

\* _fill_bullets_to_minimum raises: its loop "for idx in
\* current_bullet_indices: if 0 <= idx < len(all_bullets)" is reached and meets
\* a non-integer
FillRaises(entry_data, current_bullet_indices, min_bullets) ==
    LET all_bullets == Get(entry_data, "bullets", <<>>)
        actual_min  == Min(min_bullets, Len(all_bullets))
    IN  /\ Len(all_bullets) # 0
        /\ Len(current_bullet_indices) < actual_min
        /\ HasNonInteger(current_bullet_indices)

\* one of the _fill_bullets_to_minimum calls of a fill loop raises
FillItemsRaise(items, entries, min_bullets) ==
    \E k \in DOMAIN items :
        /\ entries[k] # NoEntry
        /\ FillRaises(entries[k], ItemIndices(items[k]), min_bullets)

\* call_openai_rank_bullets: the oracle's bullet_indices, or the first
\* min(max_bullets, len(bullets)) indices on a fault and on a reply that is
\* not an object (result.get raises inside the try)
call_openai_rank_bullets(entry, max_bullets, outcome) ==
    IF outcome.fault \/ outcome.shape # "object"
    THEN (IF Get(entry, "bullets", <<>>) # <<>>
          THEN RangeList(Min(max_bullets, Len(entry.bullets)))
          ELSE <<>>)
    ELSE Get(outcome.content, "bullet_indices", <<>>)

\* "bullet_indices = call_openai_rank_bullets(...); if not bullet_indices:
\*  bullet_indices = list(range(min(max_bullets, len(bullets))))"
RankedItem(id, entry, max_bullets, outcome) ==
    LET ranked == call_openai_rank_bullets(entry, max_bullets, outcome)
    IN  [id |-> id,
         bullet_indices |-> IF ranked = <<>>
                            THEN RangeList(Min(max_bullets, Len(entry.bullets)))
                            ELSE ranked]

\* the entry a missing required job id is ranked from (NoEntry: no call)
RequiredJobEntry(jobs_, additional_, a, selected_ids, required_id) ==
    LET entry == IF required_id \in AdditionalExperienceIds(additional_, a)
                 THEN Lookup(additional_, required_id)
                 ELSE Lookup(jobs_, required_id)
    IN  IF required_id \in selected_ids \/ Get(entry, "bullets", <<>>) = <<>>
        THEN NoEntry
        ELSE entry

\* the items the required-jobs loop appends to one of the two lists
RequiredJobItems(jobs_, additional_, a, selected_ids, outcomes, to_additional) ==
    LET required == a.required_job_ids
        hits == SelectSeq([i \in DOMAIN required |-> i],
                    LAMBDA i :
                        /\ RequiredJobEntry(jobs_, additional_, a, selected_ids,
                                            required[i]) # NoEntry
                        /\ (required[i] \in AdditionalExperienceIds(additional_, a))
                               = to_additional)
    IN  [k \in DOMAIN hits |->
            RankedItem(required[hits[k]],
                       RequiredJobEntry(jobs_, additional_, a, selected_ids,
                                        required[hits[k]]),
                       IF to_additional THEN 3 ELSE 4, outcomes[hits[k]])]

\* the items the minimum-experience step appends (both lists, in order)
MinimumItems(jobs_, additional_, regular_, additional_list_) ==
    LET num_experiences == Len(regular_) + Len(additional_list_)
        selected_job_ids == IdsOf(regular_ \o additional_list_)
        remaining_jobs ==
            SelectSeq(jobs_, LAMBDA j : Get(j, "id", NoneVal) \notin selected_job_ids)
                \o SelectSeq(additional_,
                             LAMBDA j : Get(j, "id", NoneVal) \notin selected_job_ids)
        needed == 4 - num_experiences
        taken  == SelectSeq(Prefix(_sorted_entries(remaining_jobs), needed),
                            LAMBDA j : Get(j, "bullets", <<>>) # <<>>)
    IN  IF num_experiences < 4
        THEN [k \in DOMAIN taken |->
                 [id |-> Get(taken[k], "id", NoneVal),
                  bullet_indices |-> RangeList(Min(4, Len(taken[k].bullets)))]]
        ELSE <<>>

\* the entry a missing required project id is ranked from (NoEntry: no call)
RequiredProjectEntry(projects_, selected_ids, required_id) ==
    IF \/ required_id \in selected_ids
       \/ Get(Lookup(projects_, required_id), "bullets", <<>>) = <<>>
    THEN NoEntry
    ELSE Lookup(projects_, required_id)

RequiredProjectItems(projects_, a, selected_ids, outcomes) ==
    LET required == a.required_project_ids
        hits == SelectSeq([i \in DOMAIN required |-> i],
                    LAMBDA i : RequiredProjectEntry(projects_, selected_ids,
                                                    required[i]) # NoEntry)
    IN  [k \in DOMAIN hits |->
            RankedItem(required[hits[k]],
                       RequiredProjectEntry(projects_, selected_ids, required[hits[k]]),
                       3, outcomes[hits[k]])]

----------------------------------------------------------------------------
(* main(): the budget policy *)

\* mutant: five professional experiences are not given the smaller quota
RegularQuotaMut(num_professional) == 4

\* bullets per regular experience
RegularQuota(num_professional) == IF num_professional = 5 THEN 3 ELSE 4

\* bullets per additional experience, in every branch
ADDITIONAL_QUOTA == 3

\* bullets per project
ProjectQuota(num_professional, has_additional) ==
    CASE num_professional = 5 -> 2
      [] num_professional = 4 -> (IF has_additional THEN 2 ELSE 3)
      [] num_professional = 3 -> 3
      [] OTHER -> 3

\* job_selection["bullet_indices"] = bullet_indices[:quota] for every item
TruncateItems(items, quota) ==
    [k \in DOMAIN items |-> WithIndices(items[k], Prefix(ItemIndices(items[k]), quota))]

\* the selection dict of main, with its additional_experience key only when
\* the list is not empty
MakeSelection(regular_, projects_sel, additional_list_) ==
    IF additional_list_ # <<>>
    THEN [selected_jobs |-> regular_, selected_projects |-> projects_sel,
          additional_experience |-> additional_list_]
    ELSE [selected_jobs |-> regular_, selected_projects |-> projects_sel]

\* the selection after "Post-process: Apply truncation rules"
TruncateSelection(sel) ==
    LET num_professional == Len(sel.selected_jobs)
        has_additional   == Get(sel, "additional_experience", <<>>) # <<>>
    IN  MakeSelection(
            TruncateItems(sel.selected_jobs, RegularQuota(num_professional)),
            TruncateItems(sel.selected_projects,
                          ProjectQuota(num_professional, has_additional)),
            TruncateItems(Get(sel, "additional_experience", <<>>), ADDITIONAL_QUOTA))

\* the selection after the two "Fallback to default selection" blocks
FallbackSelection(sel, default_selection) ==
    LET jobs_fallback ==
            sel.selected_jobs = <<>> /\ Get(sel, "additional_experience", <<>>) = <<>>
        sel_jobs ==
            IF jobs_fallback
            THEN TruncateItems(default_selection.selected_jobs,
                               IF Len(default_selection.selected_jobs) = 5 THEN 3 ELSE 4)
            ELSE sel.selected_jobs
        sel_projects ==
            IF sel.selected_projects = <<>>
            THEN TruncateItems(default_selection.selected_projects,
                     ProjectQuota(Len(sel_jobs),
                                  Get(sel, "additional_experience", <<>>) # <<>>))
            ELSE sel.selected_projects
    IN  MakeSelection(sel_jobs, sel_projects, Get(sel, "additional_experience", <<>>))

----------------------------------------------------------------------------
(* The data files and command lines the pipeline is run on *)

MaxRankLen == 5     \* longest bullet_indices list the oracle returns
MaxPicked  == 6     \* most items in one oracle selection

\* raw bullets: a bare string, a dict without group, a dict with a group
Str(t)    == [kind |-> "str", text |-> t]
Dict(t)   == [kind |-> "dict", text |-> t]
Grp(t, g) == [kind |-> "dict", text |-> t, group |-> g]

Present == <<"P","r","e","s","e","n","t">>
Jan2024 == <<"J","a","n"," ","2","0","2","4">>
Mar2022 == <<"M","a","r"," ","2","0","2","2">>
Y2023   == <<"2","0","2","3">>
Y2021   == <<"2","0","2","1">>

\* a small pool: grouped bullets, a job without bullets, missing keys
PoolSmall ==
    [jobs |->
        << [id |-> "j1", title |-> "J1", priority |-> 1,
            start_date |-> Mar2022, end_date |-> Present,
            bullets |-> <<Grp("j1.0", "g1"), Grp("j1.1", "g1"), Str("j1.2"),
                          Dict("j1.3"), Grp("j1.4", "g2")>>],
           [id |-> "j2", title |-> "J2", start_date |-> Y2023,
            bullets |-> <<Str("j2.0"), Grp("j2.1", "")>>],
           [id |-> "j3", title |-> "J3", priority |-> 5,
            start_date |-> Jan2024, end_date |-> Jan2024, bullets |-> <<>>] >>,
     additional |->
        << [id |-> "a1", title |-> "A1", priority |-> 3,
            start_date |-> Y2021, end_date |-> Y2023,
            bullets |-> <<Grp("a1.0", "g1"), Grp("a1.1", "g1"), Str("a1.2"),
                          Str("a1.3")>>] >>,
     projects |->
        << [id |-> "p1", name |-> "P1", start_date |-> Y2023, end_date |-> <<>>,
            bullets |-> <<Grp("p1.0", "g1"), Grp("p1.1", "g1"), Str("p1.2")>>],
           [id |-> "p2", name |-> "P2", priority |-> 1, end_date |-> Jan2024,
            bullets |-> <<Str("p2.0")>>] >>]

\* a pool in which a job and a project have the same identifier
PoolSharedId ==
    [jobs |->
        << [id |-> "x", title |-> "JX", start_date |-> Y2021, end_date |-> Y2023,
            bullets |-> <<Grp("jx.0", "g1"), Grp("jx.1", "g1")>>],
           [id |-> "j2", title |-> "J2", priority |-> 2,
            start_date |-> Mar2022, end_date |-> Present,
            bullets |-> <<Str("j2.0"), Str("j2.1"), Str("j2.2")>>] >>,
     additional |-> <<>>,
     projects |->
        << [id |-> "x", name |-> "PX", start_date |-> Y2023, end_date |-> Jan2024,
            bullets |-> <<Str("px.0"), Str("px.1")>>],
           [id |-> "p2", name |-> "P2", start_date |-> Y2021, end_date |-> Y2021,
            bullets |-> <<Str("p2.0"), Grp("p2.1", "g1"), Grp("p2.2", "g1")>>] >>]

\* a pool with more jobs than the minimum of four, of different priorities
PoolLarge ==
    [jobs |->
        << [id |-> "j1", title |-> "J1", priority |-> 0,
            start_date |-> Y2023, end_date |-> Present,
            bullets |-> <<Str("j1.0"), Str("j1.1"), Str("j1.2"), Str("j1.3"),
                          Str("j1.4")>>],
           [id |-> "j2", title |-> "J2", priority |-> 3,
            start_date |-> Y2021, end_date |-> Mar2022,
            bullets |-> <<Grp("j2.0", "g1"), Grp("j2.1", "g1"), Str("j2.2"),
                          Str("j2.3")>>],
           [id |-> "j3", title |-> "J3", priority |-> 1,
            start_date |-> Mar2022, end_date |-> Y2023,
            bullets |-> <<Str("j3.0"), Str("j3.1"), Str("j3.2"), Str("j3.3")>>],
           [id |-> "j4", title |-> "J4", priority |-> 2,
            start_date |-> Y2021, end_date |-> Y2021,
            bullets |-> <<Str("j4.0")>>],
           [id |-> "j5", title |-> "J5", priority |-> 4,
            start_date |-> Y2023, end_date |-> Jan2024,
            bullets |-> <<Str("j5.0"), Str("j5.1"), Str("j5.2"), Str("j5.3")>>] >>,
     additional |->
        << [id |-> "a1", title |-> "A1", priority |-> 0,
            start_date |-> Y2021, end_date |-> Y2021,
            bullets |-> <<Str("a1.0"), Str("a1.1"), Str("a1.2"), Str("a1.3")>>] >>,
     projects |->
        << [id |-> "p1", name |-> "P1", priority |-> 0,
            start_date |-> Y2023, end_date |-> Jan2024,
            bullets |-> <<Str("p1.0"), Str("p1.1"), Str("p1.2")>>],
           [id |-> "p2", name |-> "P2", priority |-> 2,
            start_date |-> Y2021, end_date |-> Y2021,
            bullets |-> <<Grp("p2.0", "g1"), Grp("p2.1", "g1"), Str("p2.2")>>],
           [id |-> "p3", name |-> "P3", priority |-> 1,
            start_date |-> Mar2022, end_date |-> <<>>, bullets |-> <<>>],
           [id |-> "p4", name |-> "P4", priority |-> 1,
            start_date |-> Mar2022, end_date |-> Y2023,
            bullets |-> <<Str("p4.0"), Str("p4.1")>>] >>]

\* a job and a project with the same id whose bullets have no groups
PoolSharedIdPlain ==
    [jobs |->
        << [id |-> "x", title |-> "JX", start_date |-> Y2021, end_date |-> Y2023,
            bullets |-> <<Str("jx.0"), Str("jx.1"), Str("jx.2")>>] >>,
     additional |-> <<>>,
     projects |->
        << [id |-> "x", name |-> "PX", start_date |-> Y2023, end_date |-> Jan2024,
            bullets |-> <<Str("px.0"), Str("px.1")>>] >>]

\* five jobs of which the one without priority has no bullets
PoolSparse ==
    [jobs |->
        << [id |-> "s1", title |-> "S1", start_date |-> Y2021, end_date |-> Y2021,
            bullets |-> <<>>],
           [id |-> "s2", title |-> "S2", priority |-> 1,
            start_date |-> Y2021, end_date |-> Mar2022,
            bullets |-> <<Str("s2.0")>>],
           [id |-> "s3", title |-> "S3", priority |-> 2,
            start_date |-> Mar2022, end_date |-> Y2023,
            bullets |-> <<Str("s3.0"), Str("s3.1")>>],
           [id |-> "s4", title |-> "S4", priority |-> 3,
            start_date |-> Y2023, end_date |-> Jan2024,
            bullets |-> <<Str("s4.0")>>],
           [id |-> "s5", title |-> "S5", priority |-> 4,
            start_date |-> Jan2024, end_date |-> Present,
            bullets |-> <<Str("s5.0"), Str("s5.1")>>] >>,
     additional |-> <<>>,
     projects |->
        << [id |-> "q1", name |-> "Q1", start_date |-> Y2023, end_date |-> Y2023,
            bullets |-> <<Str("q1.0")>>] >>]

\* five jobs of which only the one of highest priority has bullets, one of
\* them a dict without "text"; the project has a bullet whose text is empty
PoolBare ==
    [jobs |->
        << [id |-> "b1", title |-> "B1", priority |-> 1,
            start_date |-> Y2021, end_date |-> Y2021, bullets |-> <<>>],
           [id |-> "b2", title |-> "B2", priority |-> 2,
            start_date |-> Y2021, end_date |-> Y2021, bullets |-> <<>>],
           [id |-> "b3", title |-> "B3", priority |-> 3,
            start_date |-> Y2021, end_date |-> Y2021, bullets |-> <<>>],
           [id |-> "b4", title |-> "B4", priority |-> 4,
            start_date |-> Y2021, end_date |-> Y2021, bullets |-> <<>>],
           [id |-> "b5", title |-> "B5", priority |-> 5,
            start_date |-> Y2023, end_date |-> Present,
            bullets |-> <<Str("b5.0"), [kind |-> "dict"], Str("b5.2")>>] >>,
     additional |-> <<>>,
     projects |->
        << [id |-> "c1", name |-> "C1", start_date |-> Y2023, end_date |-> Y2023,
            bullets |-> <<Str("c1.0"), Dict("")>>] >>]

Pools == {PoolSmall, PoolSharedId, PoolSharedIdPlain, PoolSparse, PoolBare, PoolLarge}

\* an id no pool has
UnknownId == "zz"

NoArgs ==
    [required_job_ids |-> <<>>, required_project_ids |-> <<>>,
     manual_additional_experience_ids |-> <<>>,
     additional_experience_note |-> FALSE, force_additional_experience |-> FALSE]

\* the command lines tried on a pool: its last job and its last project as
\* the required ones, its last job and its first additional-experience entry
\* as the manually forced ones
ArgsOf(pool) ==
    LET last_job     == pool.jobs[Len(pool.jobs)].id
        last_project == pool.projects[Len(pool.projects)].id
        extra        == IF pool.additional # <<>> THEN pool.additional[1].id ELSE UnknownId
    IN  { NoArgs,
          [NoArgs EXCEPT !.required_job_ids = <<last_job>>],
          [NoArgs EXCEPT !.required_job_ids = <<extra, last_job>>,
                         !.force_additional_experience = TRUE],
          [NoArgs EXCEPT !.manual_additional_experience_ids = <<extra>>],
          [NoArgs EXCEPT !.manual_additional_experience_ids = <<last_job>>,
                         !.required_job_ids = <<last_job>>],
          [NoArgs EXCEPT !.additional_experience_note = TRUE],
          [NoArgs EXCEPT !.required_project_ids = <<last_project>>] }

----------------------------------------------------------------------------
(* The oracle: what the three calls may return *)

\* bullet_indices lists: in original order, ranked (pairs swapped), and
\* with repeated, negative and out-of-range indices
Swapped(n)    == [k \in 1..n |-> IF k % 2 = 1 THEN k ELSE k - 2]
Stray(n)      == [k \in 1..n |-> <<2, 2, 9, -1, 0, 1>>[((k - 1) % 6) + 1]]

RankLists ==
    {Swapped(n) : n \in {0, 3, MaxRankLen}} \cup {Stray(MaxRankLen - 1)}

\* the id lists of a selection: the first ids of the universe, or its last
IdRuns(universe) ==
    {SubSeq(universe, 1, n) : n \in 0..Min(Len(universe), MaxPicked)}
        \cup {SubSeq(universe, n, Len(universe)) : n \in 2..Len(universe)}

\* a selection that names the first id of the universe twice
Twice(universe) == <<universe[1], universe[1]>>

ItemsOf(ids, indices) == [k \in DOMAIN ids |-> [id |-> ids[k], bullet_indices |-> indices]]

PoolIds(pool_) == [k \in DOMAIN pool_ |-> pool_[k].id]

\* outcomes of an oracle call: a fault (no credentials, timeout, exception,
\* unparseable text), a JSON object, a JSON value that is not an object (the
\* array [1]), or an object whose selection list holds strings, not records
Fault == [fault |-> TRUE, shape |-> "none", content |-> <<>>]
Reply(content) == [fault |-> FALSE, shape |-> "object", content |-> content]
NotAnObject == [fault |-> FALSE, shape |-> "array", content |-> <<>>]
StringItems(content) == [fault |-> FALSE, shape |-> "string_items", content |-> content]

\* rankings with an index that is not an integer: one that every fill loop
\* reads, one that lies behind four valid indices
NonIntegerRankLists == {<<0, NonInteger>>, <<0, 1, 2, 3, NonInteger>>}

ExperienceOutcomes(jobs_, additional_) ==
    LET universe == SelectSeq(PoolIds(jobs_),
                              LAMBDA id : id \notin Range(PoolIds(additional_)))
                        \o <<UnknownId>> \o PoolIds(additional_)
    IN  {Fault, Reply(<<>>), NotAnObject,
         StringItems([selected_jobs |-> ItemsOf(universe, <<>>)])}
            \cup {Reply([selected_jobs |-> ItemsOf(ids, r)]) :
                    ids \in IdRuns(universe), r \in RankLists}
            \cup {Reply([selected_jobs |-> ItemsOf(universe, r)]) :
                    r \in NonIntegerRankLists}
            \cup {Reply([selected_jobs |-> ItemsOf(Twice(universe), Swapped(3))])}

ProjectOutcomes(projects_) ==
    {Fault, NotAnObject,
     Reply([selected_projects |-> ItemsOf(Twice(PoolIds(projects_)), Swapped(2))]),
     StringItems([selected_projects |-> ItemsOf(PoolIds(projects_), <<>>)]),
     Reply([selected_projects |-> ItemsOf(PoolIds(projects_), <<NonInteger, 1, 0>>)])}
        \cup {Reply([selected_projects |-> ItemsOf(ids, r)]) :
                ids \in IdRuns(PoolIds(projects_) \o <<UnknownId>>),
                r \in {Swapped(2)}}

RankOutcomes ==
    {Fault, Reply(<<>>), Reply([bullet_indices |-> Stray(MaxRankLen)]),
     NotAnObject, Reply([bullet_indices |-> <<1, NonInteger>>]),
     Reply([bullet_indices |-> <<1>>])}

\* main() raises on the reply of a selection call: "result.get" on a value
\* that is not an object, or "item.get" on the first item that is a string
SelectionRaises(outcome, key) ==
    \/ outcome.shape = "array"
    \/ outcome.shape = "string_items" /\ Get(outcome.content, key, <<>>) # <<>>

\* call_openai_experiences(...).get("selected_jobs", [])
call_openai_experiences(outcome) ==
    IF outcome.fault \/ outcome.shape # "object" THEN <<>> ELSE Get(outcome.content, "selected_jobs", <<>>)

\* call_openai_projects(...).get("selected_projects", [])
call_openai_projects(outcome) ==
    IF outcome.fault \/ outcome.shape # "object" THEN <<>> ELSE Get(outcome.content, "selected_projects", <<>>)

----------------------------------------------------------------------------
(* call_openai_rank_bullets on its own: every entry of the pools, the two
   values main() passes as max_bullets, every outcome of the oracle *)

RankEntries ==
    UNION {Range(pool.jobs) \cup Range(pool.additional) \cup Range(pool.projects) :
              pool \in Pools}

RankMaxBullets == {3, 4}

InitRank ==
    /\ pc = "rank_call"
    /\ arg \in [entry : RankEntries, max_bullets : RankMaxBullets,
                 outcome : RankOutcomes]
    /\ ret = <<>>
    /\ MainIdle

CallRank ==
    /\ pc = "rank_call"
    /\ ret' = call_openai_rank_bullets(arg.entry, arg.max_bullets, arg.outcome)
    /\ pc' = "rank_done"
    /\ UNCHANGED <<arg, mainVars>>

NextRank == CallRank

SpecRank == InitRank /\ [][NextRank]_vars

----------------------------------------------------------------------------
(* _sorted_entries on its own: lists of up to MaxSorted entries with and
   without priority, with running, past and equal dates *)

MaxSorted == 3

SortEntries ==
    {[start_date |-> st, end_date |-> en] : st \in {Y2021, Mar2022}, en \in {Y2023, Present}}
        \cup {[priority |-> pr, start_date |-> st, end_date |-> en] :
                 pr \in {1, 2}, st \in {Y2021, Mar2022}, en \in {Y2023, Present}}

InitSort ==
    /\ pc = "sort_call"
    /\ arg \in SeqsUpTo(SortEntries, MaxSorted)
    /\ ret = <<>>
    /\ MainIdle

CallSort ==
    /\ pc = "sort_call"
    /\ ret' = _sorted_entries(arg)
    /\ pc' = "sort_done"
    /\ UNCHANGED <<arg, mainVars>>

NextSort == CallSort

SpecSort == InitSort /\ [][NextSort]_vars

----------------------------------------------------------------------------
(* render_resume_latex (src/generate.py).  A text is the sequence of its
   lines; a line is a record: a header line (the name of an entry and the
   dates after \hfill), an item line (one bullet), a literal line, or a
   placeholder of the template.  Texts are kept as they are: _escape_latex
   changes only the characters \ & % $ # _ { } ~ ^, which no text of the
   pools contains. *)

Line(kind, text) == [kind |-> kind, text |-> text, date_part |-> <<>>]

\* "if start and end: .. {start} -- {end}  elif start: .. {start}"
DatePart(start, end) ==
    IF start # <<>> /\ end # <<>> THEN <<start, end>>
    ELSE IF start # <<>> THEN <<start>>
    ELSE <<>>

\* header, \begin{itemize}, one \item per bullet that is not empty,
\* \end{itemize}, ""
RenderBlock(name, start, end, bullets) ==
    LET shown == SelectSeq(bullets, LAMBDA b : b # "")
    IN  <<[kind |-> "header", text |-> name, date_part |-> DatePart(start, end)],
          Line("literal", "begin{itemize}")>>
            \o [i \in DOMAIN shown |-> Line("item", shown[i])]
            \o <<Line("literal", "end{itemize}"), Line("literal", "")>>

_render_experience(experience_blocks) ==
    Flatten([i \in DOMAIN experience_blocks |->
                RenderBlock(Get(experience_blocks[i], "title", ""),
                            Get(experience_blocks[i], "start_date", <<>>),
                            Get(experience_blocks[i], "end_date", <<>>),
                            Get(experience_blocks[i], "bullets", <<>>))])

_render_projects(project_blocks) ==
    Flatten([i \in DOMAIN project_blocks |->
                RenderBlock(Get(project_blocks[i], "name", "Project"),
                            Get(project_blocks[i], "start_date", <<>>),
                            Get(project_blocks[i], "end_date", <<>>),
                            Get(project_blocks[i], "bullets", <<>>))])

\* latex.replace(placeholder, block) for the experience and the project
\* placeholder: every other line of the template stays as it is
render_resume_latex(template_text, payload_) ==
    LET experience_block == _render_experience(Get(payload_, "experience", <<>>))
        projects_block   == _render_projects(Get(payload_, "projects", <<>>))
    IN  Flatten([i \in DOMAIN template_text |->
                    IF template_text[i] = Line("placeholder", "%%EXPERIENCE_BLOCKS%%")
                    THEN experience_block
                    ELSE IF template_text[i] = Line("placeholder", "%%PROJECT_BLOCKS%%")
                    THEN projects_block
                    ELSE <<template_text[i]>>])

\* the template the pipeline is run with: section headings and the
\* placeholders of the experience and the project section
Template ==
    <<Line("literal", "section{Experience}"),
      Line("placeholder", "%%EXPERIENCE_BLOCKS%%"),
      Line("literal", "section{Projects}"),
      Line("placeholder", "%%PROJECT_BLOCKS%%")>>

----------------------------------------------------------------------------
(* main(), step by step *)

Init ==
    /\ pc = "gather"
    /\ \E pool \in Pools :
          /\ jobs = pool.jobs
          /\ projects = pool.projects
          /\ additional_experience_jobs = pool.additional
          /\ args \in ArgsOf(pool)
    /\ jobs_to_send = <<>>
    /\ selected_jobs = <<>>
    /\ regular_jobs = <<>>
    /\ additional_experience_list = <<>>
    /\ selected_projects = <<>>
    /\ selection = <<>>
    /\ payload = <<>>
    /\ calls = <<>>
    /\ arg = <<>>
    /\ ret = <<>>

\* "Filter jobs by required_job_ids if provided" .. "Also include manually
\* specified additional experience jobs so LLM can see them"
Gather ==
    /\ pc = "gather"
    /\ jobs_to_send' = GatherJobsToSend(jobs, additional_experience_jobs, args)
    /\ jobs' = IF JobsToSendIsJobs(additional_experience_jobs, args)
               THEN jobs_to_send'
               ELSE jobs
    /\ pc' = "select_experiences"
    /\ UNCHANGED <<projects, additional_experience_jobs, args, selected_jobs,
                   regular_jobs, additional_experience_list, selected_projects,
                   selection, payload, calls, arg, ret>>

\* "Call LLM to select experiences"; experiences_result.get(...) and the
\* first job_selection.get("id") raise on a reply of the wrong shape
SelectExperiences ==
    /\ pc = "select_experiences"
    /\ \E outcome \in ExperienceOutcomes(jobs, additional_experience_jobs) :
          /\ selected_jobs' = call_openai_experiences(outcome)
          /\ calls' = Append(calls, [op |-> "select_experiences", about |-> "",
                                     fault |-> outcome.fault,
                                     picked |-> Len(selected_jobs')])
          /\ pc' = IF SelectionRaises(outcome, "selected_jobs")
                   THEN "aborted" ELSE "partition"
    /\ UNCHANGED <<jobs, projects, additional_experience_jobs, args, jobs_to_send,
                   regular_jobs, additional_experience_list, selected_projects,
                   selection, payload, arg, ret>>

\* "Separate additional experience from regular jobs"
Partition ==
    /\ pc = "partition"
    /\ regular_jobs' =
          SelectSeq(selected_jobs,
              LAMBDA item : ItemId(item)
                  \notin AdditionalExperienceIds(additional_experience_jobs, args))
    /\ additional_experience_list' =
          SelectSeq(selected_jobs,
              LAMBDA item : ItemId(item)
                  \in AdditionalExperienceIds(additional_experience_jobs, args))
    /\ pc' = "add_manual"
    /\ UNCHANGED <<jobs, projects, additional_experience_jobs, args, jobs_to_send,
                   selected_jobs, selected_projects, selection, payload, calls,
                   arg, ret>>

\* "If manually specified additional experience jobs weren't selected by LLM,
\* add them"
AddManual ==
    /\ pc = "add_manual"
    /\ additional_experience_list' =
          additional_experience_list
              \o ManualItems(additional_experience_jobs, args, selected_jobs)
    /\ pc' = "fill_experiences"
    /\ UNCHANGED <<jobs, projects, additional_experience_jobs, args, jobs_to_send,
                   selected_jobs, regular_jobs, selected_projects, selection,
                   payload, calls, arg, ret>>

\* "Fill bullets to 4 per experience immediately after ChatGPT returns"
FillExperiences ==
    /\ pc = "fill_experiences"
    /\ LET job_data == [k \in DOMAIN regular_jobs |->
                           Lookup(jobs, ItemId(regular_jobs[k]))]
           additional_data ==
               [k \in DOMAIN additional_experience_list |->
                   OrElse(Lookup(additional_experience_jobs,
                                 ItemId(additional_experience_list[k])),
                          Lookup(jobs, ItemId(additional_experience_list[k])))]
       IN  IF \/ FillItemsRaise(regular_jobs, job_data, 4)
              \/ FillItemsRaise(additional_experience_list, additional_data, 3)
           THEN /\ pc' = "aborted"
                /\ UNCHANGED <<regular_jobs, additional_experience_list>>
           ELSE /\ regular_jobs' = FillItems(regular_jobs, job_data, 4)
                /\ additional_experience_list' =
                      FillItems(additional_experience_list, additional_data, 3)
                /\ pc' = "require_jobs"
    /\ UNCHANGED <<jobs, projects, additional_experience_jobs, args, jobs_to_send,
                   selected_jobs, selected_projects, selection, payload, calls,
                   arg, ret>>

\* the rank_bullets calls of a required-ids loop, in order
RankCalls(required, called, outcomes) ==
    LET hits == SelectSeq([i \in DOMAIN required |-> i], LAMBDA i : called[i])
    IN  [k \in DOMAIN hits |->
            [op |-> "rank_bullets", about |-> required[hits[k]],
             fault |-> outcomes[hits[k]].fault, picked |-> 1]]

\* "Ensure all required jobs are included"
RequireJobs ==
    /\ pc = "require_jobs"
    /\ LET selected_job_ids == IdsOf(regular_jobs \o additional_experience_list)
           required == args.required_job_ids
           Called(i) == RequiredJobEntry(jobs, additional_experience_jobs, args,
                                         selected_job_ids, required[i]) # NoEntry
       IN  \E outcomes \in [DOMAIN required -> RankOutcomes] :
              /\ \A i \in DOMAIN required : ~Called(i) => outcomes[i] = Fault
              /\ regular_jobs' =
                    regular_jobs
                        \o RequiredJobItems(jobs, additional_experience_jobs, args,
                                            selected_job_ids, outcomes, FALSE)
              /\ additional_experience_list' =
                    additional_experience_list
                        \o RequiredJobItems(jobs, additional_experience_jobs, args,
                                            selected_job_ids, outcomes, TRUE)
              /\ calls' = calls \o RankCalls(required,
                                             [i \in DOMAIN required |-> Called(i)],
                                             outcomes)
    /\ pc' = "ensure_minimum"
    /\ UNCHANGED <<jobs, projects, additional_experience_jobs, args, jobs_to_send,
                   selected_jobs, selected_projects, selection, payload, arg, ret>>

\* "Ensure we have at least 4 experiences"
EnsureMinimum ==
    /\ pc = "ensure_minimum"
    /\ LET added == MinimumItems(jobs, additional_experience_jobs, regular_jobs,
                                 additional_experience_list)
           ids   == AdditionalExperienceIds(additional_experience_jobs, args)
       IN  /\ regular_jobs' =
                 regular_jobs \o SelectSeq(added, LAMBDA item : item.id \notin ids)
           /\ additional_experience_list' =
                 additional_experience_list
                     \o SelectSeq(added, LAMBDA item : item.id \in ids)
    /\ pc' = "select_projects"
    /\ UNCHANGED <<jobs, projects, additional_experience_jobs, args, jobs_to_send,
                   selected_jobs, selected_projects, selection, payload, calls,
                   arg, ret>>

\* "Select projects based on number of experiences"; projects_result.get(...)
\* and the first read of an item's id (in the required-projects block or in
\* the fill loop, before either changes anything) raise on a reply of the
\* wrong shape
SelectProjects ==
    /\ pc = "select_projects"
    /\ \E outcome \in ProjectOutcomes(projects) :
          /\ selected_projects' = call_openai_projects(outcome)
          /\ calls' = Append(calls, [op |-> "select_projects", about |-> "",
                                     fault |-> outcome.fault,
                                     picked |-> Len(selected_projects')])
          /\ pc' = IF SelectionRaises(outcome, "selected_projects")
                   THEN "aborted" ELSE "require_projects"
    /\ UNCHANGED <<jobs, projects, additional_experience_jobs, args, jobs_to_send,
                   selected_jobs, regular_jobs, additional_experience_list,
                   selection, payload, arg, ret>>

\* "Ensure all required projects are included"
RequireProjects ==
    /\ pc = "require_projects"
    /\ LET selected_project_ids == IdsOf(selected_projects)
           required == args.required_project_ids
           Called(i) == RequiredProjectEntry(projects, selected_project_ids,
                                             required[i]) # NoEntry
       IN  \E outcomes \in [DOMAIN required -> RankOutcomes] :
              /\ \A i \in DOMAIN required : ~Called(i) => outcomes[i] = Fault
              /\ selected_projects' =
                    selected_projects
                        \o RequiredProjectItems(projects, args, selected_project_ids,
                                                outcomes)
              /\ calls' = calls \o RankCalls(required,
                                             [i \in DOMAIN required |-> Called(i)],
                                             outcomes)
    /\ pc' = "fill_projects"
    /\ UNCHANGED <<jobs, projects, additional_experience_jobs, args, jobs_to_send,
                   selected_jobs, regular_jobs, additional_experience_list,
                   selection, payload, arg, ret>>

\* "Fill bullets to 3 per project immediately after ChatGPT returns"
FillProjects ==
    /\ pc = "fill_projects"
    /\ LET project_data == [k \in DOMAIN selected_projects |->
                               Lookup(projects, ItemId(selected_projects[k]))]
       IN  IF FillItemsRaise(selected_projects, project_data, 3)
           THEN /\ pc' = "aborted"
                /\ UNCHANGED selected_projects
           ELSE /\ selected_projects' = FillItems(selected_projects, project_data, 3)
                /\ pc' = "truncate"
    /\ UNCHANGED <<jobs, projects, additional_experience_jobs, args, jobs_to_send,
                   selected_jobs, regular_jobs, additional_experience_list,
                   selection, payload, calls, arg, ret>>

\* "Build selection dict" and "Post-process: Apply truncation rules"; the
\* items of the three lists are the objects the selection holds
Truncate ==
    /\ pc = "truncate"
    /\ selection' = TruncateSelection(MakeSelection(regular_jobs, selected_projects,
                                                    additional_experience_list))
    /\ regular_jobs' = selection'.selected_jobs
    /\ selected_projects' = selection'.selected_projects
    /\ additional_experience_list' = Get(selection', "additional_experience", <<>>)
    /\ pc' = "fallback"
    /\ UNCHANGED <<jobs, projects, additional_experience_jobs, args, jobs_to_send,
                   selected_jobs, payload, calls, arg, ret>>

\* "Fallback to default selection if no jobs were selected"
Fallback ==
    /\ pc = "fallback"
    /\ selection' = FallbackSelection(selection, _build_default_selection(jobs, projects))
    /\ pc' = "build_payload"
    /\ UNCHANGED <<jobs, projects, additional_experience_jobs, args, jobs_to_send,
                   selected_jobs, regular_jobs, additional_experience_list,
                   selected_projects, payload, calls, arg, ret>>

\* "payload = build_payload(...)", "template_text = read_text(args.template)",
\* "latex_text = render_resume_latex(template_text, payload)": arg is the
\* template and ret the text returned
AssemblePayload ==
    /\ pc = "build_payload"
    /\ IF BuildPayloadRaises(jobs, projects, selection, additional_experience_jobs)
       THEN /\ pc' = "aborted"
            /\ UNCHANGED <<payload, arg, ret>>
       ELSE /\ payload' = build_payload(jobs, projects, selection,
                                        args.force_additional_experience,
                                        additional_experience_jobs)
            /\ arg' = Template
            /\ ret' = render_resume_latex(arg', payload')
            /\ pc' = "done"
    /\ UNCHANGED <<jobs, projects, additional_experience_jobs, args, jobs_to_send,
                   selected_jobs, regular_jobs, additional_experience_list,
                   selected_projects, selection, calls>>

Next ==
    \/ Gather
    \/ SelectExperiences
    \/ Partition
    \/ AddManual
    \/ FillExperiences
    \/ RequireJobs
    \/ EnsureMinimum
    \/ SelectProjects
    \/ RequireProjects
    \/ FillProjects
    \/ Truncate
    \/ Fallback
    \/ AssemblePayload

Spec == Init /\ [][Next]_vars

----------------------------------------------------------------------------
(* The pipeline's claims *)

\* the entry of a pool with a given title (jobs, additional experience) or
\* name (projects); titles and names are unique in the pools of this model
EntryTitled(pool_, field, title) ==
    IF \E i \in DOMAIN pool_ : pool_[i][field] = title
    THEN pool_[CHOOSE i \in DOMAIN pool_ : pool_[i][field] = title]
    ELSE NoEntry

\* the group of the bullet of an entry that has a given text (bullet texts are
\* unique in the pools of this model); NoneVal when it has no group
GroupOfText(entry, text) ==
    LET normalized == [i \in DOMAIN Get(entry, "bullets", <<>>) |->
                          _normalize_bullet(entry.bullets[i])]
    IN  IF \E i \in DOMAIN normalized : normalized[i].text = text
        THEN GroupOf(normalized[CHOOSE i \in DOMAIN normalized : normalized[i].text = text])
        ELSE NoneVal

\* no two bullets shown for the entry have the same non-empty group
OnePerGroupShown(entry, texts) ==
    \A i, j \in DOMAIN texts :
        i < j => ~(/\ Truthy(GroupOfText(entry, texts[i]))
                   /\ GroupOfText(entry, texts[i]) = GroupOfText(entry, texts[j]))

\* C2: in the final payload every entry of the experience, the
\* additional_experience and the projects list shows at most one bullet per
\* non-empty group value of that entry.
C2_PayloadOnePerGroup ==
    pc = "done" =>
        /\ \A i \in DOMAIN payload.experience :
              OnePerGroupShown(EntryTitled(jobs, "title", payload.experience[i].title),
                               payload.experience[i].bullets)
        /\ \A i \in DOMAIN payload.additional_experience :
              OnePerGroupShown(
                  EntryTitled(additional_experience_jobs \o jobs, "title",
                              payload.additional_experience[i].title),
                  payload.additional_experience[i].bullets)
        /\ \A i \in DOMAIN payload.projects :
              OnePerGroupShown(EntryTitled(projects, "name", payload.projects[i].name),
                               payload.projects[i].bullets)

\* the payload has the entry in its experience or additional_experience list
\* with a non-empty bullet list
InPayloadWithBullets(entry) ==
    \E i \in DOMAIN (payload.experience \o payload.additional_experience) :
        LET shown == (payload.experience \o payload.additional_experience)[i]
        IN  shown.title = entry.title /\ shown.bullets # <<>>

\* C3: every required job id that exists in the regular or the
\* additional-experience pool with at least one bullet is in the final
\* payload's experience or additional_experience list with a non-empty bullet
\* list, whatever the flags and whatever the oracle answered.
C3_RequiredJobsInPayload ==
    pc = "done" =>
        \A k \in DOMAIN args.required_job_ids :
            LET entry == OrElse(Lookup(jobs, args.required_job_ids[k]),
                                Lookup(additional_experience_jobs, args.required_job_ids[k]))
            IN  (entry # NoEntry /\ Get(entry, "bullets", <<>>) # <<>>)
                    => InPayloadWithBullets(entry)

\* the oracle returned no job and no project
ZeroSelections ==
    /\ \E i \in DOMAIN calls : calls[i].op = "select_experiences" /\ calls[i].picked = 0
    /\ \E i \in DOMAIN calls : calls[i].op = "select_projects" /\ calls[i].picked = 0

\* entries ordered by priority descending, then end date descending, then
\* start date descending
PriorityDescending(entries) ==
    SortedByKey(entries,
                [i \in DOMAIN entries |->
                    <<Get(entries[i], "priority", 0)>>
                        \o _parse_date_for_sorting(Get(entries[i], "end_date", <<>>))
                        \o _parse_date_for_sorting(Get(entries[i], "start_date", <<>>))],
                TRUE)

\* the first n entries with bullets
FirstWithBullets(entries, n) ==
    Prefix(SelectSeq(entries, LAMBDA e : Get(e, "bullets", <<>>) # <<>>), n)

\* C4: when the oracle returns zero selections for both jobs and projects,
\* the payload's experience entries are the first 4 jobs with bullets in the
\* order priority descending, end date descending, start date descending,
\* each with up to 4 bullets, and its projects are the first 3 projects with
\* bullets in that order, each with 2 bullets.
C4_ZeroSelectionsGiveLocalDefault ==
    (pc = "done" /\ ZeroSelections) =>
        /\ {payload.experience[i].title : i \in DOMAIN payload.experience}
              = {e.title : e \in Range(FirstWithBullets(PriorityDescending(jobs), 4))}
        /\ \A i \in DOMAIN payload.experience : Len(payload.experience[i].bullets) <= 4
        /\ {payload.projects[i].name : i \in DOMAIN payload.projects}
              = {e.name : e \in Range(FirstWithBullets(PriorityDescending(projects), 3))}
        /\ \A i \in DOMAIN payload.projects : Len(payload.projects[i].bullets) = 2

\* the bullets of an entry at the valid indices of a ranked list, in ranked
\* order, with their original index
RankedBullets(entry, indices) ==
    LET valid == SelectSeq(indices,
                     LAMBDA idx : ValidIndex(idx, Get(entry, "bullets", <<>>)))
    IN  [i \in DOMAIN valid |->
            [b |-> _normalize_bullet(At(entry.bullets, valid[i])), idx |-> valid[i]]]

\* the ranked list has several bullets of one group
SeveralOfOneGroup(entry, indices) ==
    LET ranked == RankedBullets(entry, indices)
    IN  \E i, j \in DOMAIN ranked :
            /\ ranked[i].idx # ranked[j].idx
            /\ Truthy(GroupOf(ranked[i].b))
            /\ GroupOf(ranked[i].b) = GroupOf(ranked[j].b)

\* first of each group in ranked order, survivors in ranked order, then
\* backfilled up to the floor
KeptThenBackfilled(entry, indices, floor) ==
    LET ranked   == RankedBullets(entry, indices)
        survivor(i) == \A j \in 1..(i - 1) :
                          ~(/\ Truthy(GroupOf(ranked[i].b))
                            /\ GroupOf(ranked[j].b) = GroupOf(ranked[i].b))
        survivors == SelectSeq([i \in DOMAIN ranked |-> i], survivor)
        kept     == [k \in DOMAIN survivors |-> ranked[survivors[k]].idx]
        final    == IF Len(kept) < floor
                    THEN _fill_bullets_to_minimum(entry, kept, floor)
                    ELSE kept
    IN  TextsOfIndices(entry, final)

\* the payload list shows the entry with exactly these bullets
ShownWith(list, title, texts) ==
    \E i \in DOMAIN list : list[i].title = title /\ list[i].bullets = texts

\* C5: for a regular job whose ranked bullet_indices contain several bullets
\* of one group, the payload keeps for each group the bullet that is first in
\* ranked order, keeps the survivors in ranked order, and when fewer than 4
\* survive appends unused non-conflicting bullets in ascending original index
\* up to 4; additional-experience entries the same with floor 3.
C5_FirstRankedPerGroupThenBackfill ==
    pc = "done" =>
        /\ \A k \in DOMAIN selection.selected_jobs :
              LET item  == selection.selected_jobs[k]
                  entry == Lookup(jobs, ItemId(item))
              IN  (entry # NoEntry /\ SeveralOfOneGroup(entry, ItemIndices(item)))
                      => ShownWith(payload.experience, entry.title,
                                   KeptThenBackfilled(entry, ItemIndices(item), 4))
        /\ \A k \in DOMAIN Get(selection, "additional_experience", <<>>) :
              LET item  == selection.additional_experience[k]
                  entry == OrElse(Lookup(additional_experience_jobs, ItemId(item)),
                                  Lookup(jobs, ItemId(item)))
              IN  (entry # NoEntry /\ SeveralOfOneGroup(entry, ItemIndices(item)))
                      => ShownWith(payload.additional_experience, entry.title,
                                   KeptThenBackfilled(entry, ItemIndices(item), 3))

\* every item of the new list is the item of the old list with the prefix of
\* its bullet_indices of length min(previous length, quota)
PrefixesOf(new, old, quota) ==
    /\ Len(new) = Len(old)
    /\ \A i \in DOMAIN old :
          /\ ItemId(new[i]) = ItemId(old[i])
          /\ ItemIndices(new[i])
                = SubSeq(ItemIndices(old[i]), 1, Min(Len(ItemIndices(old[i])), quota))

\* the truncation step, as a step of the pipeline
TruncationStep == pc = "truncate" /\ pc' = "fallback"

\* C6: the truncation step maps the number of regular experience items (and
\* whether an additional-experience item exists) to the quotas of the policy
\* table: 5 -> regular 3, additional 3, project 2; 4 -> regular 4,
\* additional 3, project 2 if additional experience is present else 3; any
\* other count -> regular 4, additional 3, project 3; and after the step
\* every item's bullet_indices is the prefix of its previous bullet_indices
\* of length min(previous length, quota).
C6_TruncationFollowsPolicyTable ==
    [][TruncationStep =>
          LET n     == Len(regular_jobs)
              extra == additional_experience_list # <<>>
              regular_quota == IF n = 5 THEN 3 ELSE 4
              project_quota == IF n = 5 THEN 2
                               ELSE IF n = 4 /\ extra THEN 2
                               ELSE 3
          IN  /\ PrefixesOf(selection'.selected_jobs, regular_jobs, regular_quota)
              /\ PrefixesOf(Get(selection', "additional_experience", <<>>),
                            additional_experience_list, 3)
              /\ PrefixesOf(selection'.selected_projects, selected_projects,
                            project_quota)]_vars

\* five regular items with an additional one were cut to 3, 3 and 2 bullets
C6_Witness ==
    /\ pc = "fallback"
    /\ Len(selection.selected_jobs) = 5
    /\ "additional_experience" \in DOMAIN selection
    /\ \E i \in DOMAIN selected_jobs : Len(ItemIndices(selected_jobs[i])) = MaxRankLen
    /\ \A i \in DOMAIN selection.selected_jobs :
          Len(ItemIndices(selection.selected_jobs[i])) <= 3
    /\ \E i \in DOMAIN selection.selected_jobs :
          Len(ItemIndices(selection.selected_jobs[i])) = 3
    /\ \E i \in DOMAIN selection.selected_projects :
          Len(ItemIndices(selection.selected_projects[i])) = 2

\* C7: in the final payload every regular experience entry has at most the
\* regular quota of the run's tier: at most 3 bullets when exactly 5 regular
\* experience entries were selected, at most 4 otherwise.
C7_PayloadWithinRegularQuota ==
    pc = "done" =>
        \A i \in DOMAIN payload.experience :
            Len(payload.experience[i].bullets)
                <= (IF Len(selection.selected_jobs) = 5 THEN 3 ELSE 4)

----------------------------------------------------------------------------
(* Properties of the pure functions *)

\* a is a subsequence of b: the elements of a, in order, among those of b
RECURSIVE IsSubseq(_, _)
IsSubseq(a, b) ==
    IF a = <<>> THEN TRUE
    ELSE IF b = <<>> THEN FALSE
    ELSE IF Head(a) = Head(b) THEN IsSubseq(Tail(a), Tail(b))
    ELSE IsSubseq(a, Tail(b))

\* C1: the list _filter_conflicting_bullets returns is a subsequence of its
\* input (same relative order, nothing added) and holds at most one bullet
\* for each non-empty group value.
C1_FilterSubsequenceOnePerGroup ==
    pc = "filter_done" =>
        /\ IsSubseq(ret, arg)
        /\ \A i, j \in DOMAIN ret :
              (i # j /\ Truthy(GroupOf(ret[i]))) => GroupOf(ret[i]) # GroupOf(ret[j])

\* C1 witness: the resolver dropped a bullet of a group and kept another one
C1_Witness ==
    /\ pc = "filter_done"
    /\ Len(ret) < Len(arg)
    /\ \E i, j \in DOMAIN ret :
          i # j /\ Truthy(GroupOf(ret[i])) /\ Truthy(GroupOf(ret[j]))

\* C8: backfill is idempotent, fill(e, fill(e, L, f), f) = fill(e, L, f), and
\* a list that already has min(floor, number of bullets) indices is returned
\* unchanged.
C8_FillIdempotent ==
    pc = "fill_twice" =>
        /\ ret[2] = ret[1]
        /\ Len(arg.current_bullet_indices)
                >= Min(arg.min_bullets, Len(arg.entry_data.bullets))
              => ret[1] = arg.current_bullet_indices

\* C8 witness: a first fill that appended and still stayed below the floor
\* (candidates were skipped), then was filled again
C8_Witness ==
    /\ pc = "fill_twice"
    /\ Len(ret[1]) > Len(arg.current_bullet_indices)
    /\ Len(ret[1]) < Min(arg.min_bullets, Len(arg.entry_data.bullets))

\* the group of the bullet at a valid index of an entry
GroupAt(entry_data, idx) == GroupOf(_normalize_bullet(At(entry_data.bullets, idx)))

\* C9: every index backfill appends is a valid index of the entry, is not
\* already in the list (input or appended earlier), and its bullet has no
\* group or a group that no bullet already in the list carries.
C9_FillAppendsFreshNonConflicting ==
    pc = "fill_once" =>
        LET L == arg.current_bullet_indices
            R == ret[1]
            e == arg.entry_data
        IN  /\ Len(R) >= Len(L)
            /\ SubSeq(R, 1, Len(L)) = L
            /\ \A k \in (Len(L) + 1)..Len(R) :
                  /\ ValidIndex(R[k], e.bullets)
                  /\ \A j \in 1..(k - 1) : R[j] # R[k]
                  /\ \/ ~Truthy(GroupAt(e, R[k]))
                     \/ \A j \in 1..(k - 1) :
                           ValidIndex(R[j], e.bullets)
                               => GroupAt(e, R[j]) # GroupAt(e, R[k])

\* C9 witness: backfill appended a grouped bullet after skipping a selected
\* index and a bullet of a used group
C9_Witness ==
    /\ pc = "fill_once"
    /\ Len(ret[1]) > Len(arg.current_bullet_indices)
    /\ Truthy(GroupAt(arg.entry_data, ret[1][Len(ret[1])]))
    /\ \E idx \in 0..(Len(arg.entry_data.bullets) - 1) :
          /\ idx < ret[1][Len(ret[1])]
          /\ idx \notin Range(ret[1])
    /\ \E j \in DOMAIN arg.current_bullet_indices :
          /\ ValidIndex(arg.current_bullet_indices[j], arg.entry_data.bullets)
          /\ arg.current_bullet_indices[j] < ret[1][Len(ret[1])]

\* the tokens of a label as the parser sees them
TokensOf(label) == Split(Lower(label))

\* a label with a 4-digit year token and/or a month token
IsRealDate(label) ==
    \E i \in DOMAIN TokensOf(label) :
        IsYearToken(TokensOf(label)[i]) \/ IsMonthToken(TokensOf(label)[i])

HasMonthToken(label) ==
    \E i \in DOMAIN TokensOf(label) : IsMonthToken(TokensOf(label)[i])

\* the last 4-digit token of a label, as a tuple of characters (<<>> if none)
LastYearToken(label) ==
    LET t  == TokensOf(label)
        ys == {i \in DOMAIN t : IsYearToken(t[i])}
    IN  IF ys = {} THEN <<>>
        ELSE t[CHOOSE i \in ys : \A j \in ys : j <= i]

\* the last month token of a label (<<>> if none)
LastMonthToken(label) ==
    LET t  == TokensOf(label)
        ms == {i \in DOMAIN t : IsMonthToken(t[i])}
    IN  IF ms = {} THEN <<>>
        ELSE t[CHOOSE i \in ms : \A j \in ms : j <= i]

\* C10 as stated: "present", "current", "now" in any letter case get a key
\* strictly greater than the key of every label that parses to a real date,
\* and the empty or blank label a key strictly smaller than every such key.
C10_PresentAboveBlankBelowStrict ==
    (pc = "parse_done" /\ IsRealDate(arg.label)) =>
        /\ Lower(arg.special) \in PresentWords => KeyLess(ret.label, ret.special)
        /\ IsBlank(arg.special) => KeyLess(ret.special, ret.label)

\* C10 amended: the key of a running label is strictly greater than that of
\* every real-date label, except that it equals the key of a label whose last
\* year token is 9999 and whose last month token is December or missing; the
\* key of an empty or blank label is strictly smaller than that of every
\* real-date label, except that it equals the key of a label without month
\* token whose last year token is 0000.
C10_PresentAboveBlankBelow ==
    (pc = "parse_done" /\ IsRealDate(arg.label)) =>
        /\ Lower(arg.special) \in PresentWords =>
              IF /\ LastYearToken(arg.label) = <<"9","9","9","9">>
                 /\ LastMonthToken(arg.label)
                        \in {<<>>, <<"d","e","c">>, <<"d","e","c","e","m","b","e","r">>}
              THEN ret.label = ret.special
              ELSE KeyLess(ret.label, ret.special)
        /\ IsBlank(arg.special) =>
              IF /\ LastYearToken(arg.label) = <<"0","0","0","0">>
                 /\ ~HasMonthToken(arg.label)
              THEN ret.label = ret.special
              ELSE KeyLess(ret.special, ret.label)

\* C10 witness: an upper-case running label compared with a month-and-year
\* label
C10_Witness ==
    /\ pc = "parse_done"
    /\ Lower(arg.special) \in PresentWords
    /\ arg.special \notin PresentWords
    /\ HasMonthToken(arg.label)
    /\ LastYearToken(arg.label) # <<>>
    /\ KeyLess(ret.label, ret.special)

\* the (year, month) the token rule gives a label: the year of its last
\* 4-digit token (0 if none), the number of its last month token, and for a
\* label without month token 12 if yearFound, else 0
TokenRuleKey(label, yearFound) ==
    << IF LastYearToken(label) = <<>> THEN 0 ELSE IntOf(LastYearToken(label)),
       IF HasMonthToken(label) THEN MonthOf(LastMonthToken(label))
       ELSE IF yearFound THEN 12 ELSE 0 >>

C12_NoOracleOutcomeAborts ==
    pc # "aborted"

\* C13: for every entry, every max_bullets and every oracle outcome the list
\* call_openai_rank_bullets returns has at most max_bullets elements.
C13_RankedListWithinMaxBullets ==
    pc = "rank_done" => Len(ret) <= arg.max_bullets

\* the texts of the bullets of an entry
BulletTexts(entry) ==
    {_normalize_bullet(entry.bullets[i]).text : i \in DOMAIN Get(entry, "bullets", <<>>)}

\* every entry of a payload list is an entry of the pool, and every bullet it
\* shows is the text of one of that entry's bullets
ShowsOwnBullets(list, pool_, field) ==
    \A i \in DOMAIN list :
        /\ EntryTitled(pool_, field, list[i][field]) # NoEntry
        /\ Range(list[i].bullets)
               \subseteq BulletTexts(EntryTitled(pool_, field, list[i][field]))

\* some bullet index of the selection is not an integer
SelectionHasNonInteger ==
    \E f \in {"selected_jobs", "selected_projects", "additional_experience"} :
        \E k \in DOMAIN Get(selection, f, <<>>) :
            HasNonInteger(ItemIndices(selection[f][k]))

\* C14: build_payload reads no missing pool entry and no out-of-range bullet:
\* every entry it emits is an entry of its pool (an item with an absent id
\* contributes none), every bullet text it emits is the text of an existing
\* bullet of the entry it is shown under (an integer index outside
\* 0..len-1 contributes none), and with integer indices it returns normally.
C14_PayloadShowsOnlyOwnBullets ==
    /\ pc = "done" =>
          /\ ShowsOwnBullets(payload.experience, jobs, "title")
          /\ ShowsOwnBullets(payload.projects, projects, "name")
          /\ ShowsOwnBullets(payload.additional_experience,
                             additional_experience_jobs \o jobs, "title")
    /\ (pc = "aborted" /\ selection # <<>>) => SelectionHasNonInteger

\* C15: after the minimum-experience-count step the regular and the
\* additional-experience list together hold at least 4 items, or the pool is
\* exhausted: every entry of the regular and the additional-experience pool
\* that has a bullet has been selected.
C15_MinimumReachedOrPoolExhausted ==
    pc = "select_projects" =>
        \/ Len(regular_jobs) + Len(additional_experience_list) >= 4
        \/ \A entry \in Range(jobs) \cup Range(additional_experience_jobs) :
              Get(entry, "bullets", <<>>) # <<>>
                  => entry.id \in IdsOf(regular_jobs \o additional_experience_list)

\* the order the local orderings are said to use, as a key that is larger for
\* the entry that comes first: priority (missing = 0), end date, start date
ClaimedOrderKey(x) ==
    << Get(x, "priority", 0) >>
        \o _parse_date_for_sorting(Get(x, "end_date", <<>>))
        \o _parse_date_for_sorting(Get(x, "start_date", <<>>))

\* C16: the local orderings put entries in descending priority (missing = 0),
\* entries of equal priority by most recent end date, then by most recent
\* start date.
C16_LocalOrderPriorityDescending ==
    pc = "sort_done" =>
        \A i, j \in DOMAIN ret :
            i < j => ~TupleLess(ClaimedOrderKey(ret[i]), ClaimedOrderKey(ret[j]))

\* C17: every required project id that exists in the project pool with at
\* least one bullet is in the final payload's projects list with a non-empty
\* bullet list, whatever select_projects and rank_bullets answered.
C17_RequiredProjectsInPayload ==
    pc = "done" =>
        \A k \in DOMAIN args.required_project_ids :
            LET entry == Lookup(projects, args.required_project_ids[k])
            IN  Get(entry, "bullets", <<>>) # <<>> =>
                    \E i \in DOMAIN payload.projects :
                        /\ payload.projects[i].name = entry.name
                        /\ payload.projects[i].bullets # <<>>

\* the (end-date key, start-date key) of a payload entry
EndStartKey(x) ==
    _parse_date_for_sorting(x.end_date) \o _parse_date_for_sorting(x.start_date)

\* the date key of a payload project: of its end date, of its start date
\* when the end date is blank
ProjectDateKey(x) ==
    _parse_date_for_sorting(IF x.end_date # <<>> THEN x.end_date ELSE x.start_date)

\* C18: the payload's experience and additional_experience lists are in
\* non-increasing order of (end-date key, start-date key), and its projects
\* list in non-increasing order of the date key of the end date (of the start
\* date when the end date is blank).
C18_PayloadListsMostRecentFirst ==
    pc = "done" =>
        /\ \A i, j \in DOMAIN payload.experience :
              i < j => ~TupleLess(EndStartKey(payload.experience[i]),
                                  EndStartKey(payload.experience[j]))
        /\ \A i, j \in DOMAIN payload.additional_experience :
              i < j => ~TupleLess(EndStartKey(payload.additional_experience[i]),
                                  EndStartKey(payload.additional_experience[j]))
        /\ \A i, j \in DOMAIN payload.projects :
              i < j => ~TupleLess(ProjectDateKey(payload.projects[i]),
                                  ProjectDateKey(payload.projects[j]))

\* C18 witness: a payload whose first experience is not the first selected
\* job, with an additional experience and with a project without end date
\* that is listed after a dated one
C18_Witness ==
    /\ pc = "done"
    /\ Len(payload.experience) >= 2
    /\ payload.experience[1].title
           # Get(Lookup(jobs, ItemId(selection.selected_jobs[1])), "title", "")
    /\ payload.additional_experience # <<>>
    /\ \E i, j \in DOMAIN payload.projects :
          /\ i < j
          /\ payload.projects[j].end_date = <<>>
          /\ payload.projects[i].end_date # <<>>

\* C19: the final payload is deduplicated: no entry appears twice across the
\* experience and additional_experience lists and no project appears twice,
\* also when the oracle names the same id more than once.
C19_PayloadDeduplicated ==
    pc = "done" =>
        /\ \A i, j \in DOMAIN (payload.experience \o payload.additional_experience) :
              i # j => (payload.experience \o payload.additional_experience)[i].title
                           # (payload.experience \o payload.additional_experience)[j].title
        /\ \A i, j \in DOMAIN payload.projects :
              i # j => payload.projects[i].name # payload.projects[j].name

\* C20: every additional-experience entry of the final payload has at most 3
\* bullets, in every tier and however it was selected.
C20_AdditionalEntriesWithinQuota ==
    pc = "done" =>
        \A i \in DOMAIN payload.additional_experience :
            Len(payload.additional_experience[i].bullets) <= ADDITIONAL_QUOTA

\* the index is a valid index of the entry whose group some bullet at a valid
\* index of the list carries
ConflictsWith(entry_data, idx, list) ==
    /\ Truthy(GroupAt(entry_data, idx))
    /\ \E j \in DOMAIN list :
          /\ ValidIndex(list[j], entry_data.bullets)
          /\ GroupAt(entry_data, list[j]) = GroupAt(entry_data, idx)

\* the result R of backfill for the list L: L followed by strictly ascending
\* indices, none of which comes after a candidate that was free when it was
\* appended, and up to min(floor, number of bullets) unless no candidate is
\* left
FillAppendsAscendingToFloor(entry_data, L, floor, R) ==
    LET n == Len(entry_data.bullets)
    IN  /\ Len(R) >= Len(L)
        /\ SubSeq(R, 1, Len(L)) = L
        /\ \A k \in (Len(L) + 2)..Len(R) : R[k - 1] < R[k]
        /\ \A k \in (Len(L) + 1)..Len(R) :
              \A idx \in 0..(R[k] - 1) :
                  \/ idx \in Range(L)
                  \/ idx \in Range(SubSeq(R, 1, k - 1))
                  \/ ConflictsWith(entry_data, idx, SubSeq(R, 1, k - 1))
        /\ Len(R) < Min(floor, n) =>
              \A idx \in 0..(n - 1) :
                  idx \in Range(R) \/ ConflictsWith(entry_data, idx, R)

\* C21 as stated: the result of _fill_bullets_to_minimum is L followed by
\* appended indices in strictly ascending order, no skipped candidate that is
\* unselected and non-conflicting precedes an appended one, the result reaches
\* min(floor, number of bullets) whenever enough such candidates exist, and
\* the result is never longer than the entry's number of bullets.
C21_FillAscendingToFloorWithinCountAsStated ==
    pc = "fill_once" =>
        /\ FillAppendsAscendingToFloor(arg.entry_data, arg.current_bullet_indices,
                                       arg.min_bullets, ret[1])
        /\ Len(ret[1]) <= Len(arg.entry_data.bullets)

\* C21 amended: the same, but the length bound is on what backfill adds: a
\* result that is longer than L has at most min(floor, number of bullets)
\* elements; a list L that is longer than that is returned as it is.
C21_FillAscendingToFloorWithinCount ==
    pc = "fill_once" =>
        /\ FillAppendsAscendingToFloor(arg.entry_data, arg.current_bullet_indices,
                                       arg.min_bullets, ret[1])
        /\ IF Len(arg.current_bullet_indices)
                  >= Min(arg.min_bullets, Len(arg.entry_data.bullets))
           THEN ret[1] = arg.current_bullet_indices
           ELSE Len(ret[1]) <= Min(arg.min_bullets, Len(arg.entry_data.bullets))

\* C21 witness: backfill appended two indices to a list with an index out of
\* range, passed over a bullet of a used group, and reached the floor
C21_Witness ==
    /\ pc = "fill_once"
    /\ \E j \in DOMAIN arg.current_bullet_indices :
          ~ValidIndex(arg.current_bullet_indices[j], arg.entry_data.bullets)
    /\ Len(ret[1]) >= Len(arg.current_bullet_indices) + 2
    /\ Len(ret[1]) = Min(arg.min_bullets, Len(arg.entry_data.bullets))
    /\ \E idx \in 0..(ret[1][Len(ret[1])] - 1) : idx \notin Range(ret[1])

\* the fields of a selection, the payload list each one feeds and the field
\* that names an entry there
SelectionFields == {"selected_jobs", "selected_projects", "additional_experience"}

PayloadFieldOf(f) ==
    IF f = "selected_jobs" THEN "experience"
    ELSE IF f = "selected_projects" THEN "projects"
    ELSE "additional_experience"

\* the pool entry a selection item of field f stands for
EntryOfItem(f, item) ==
    LET id == Get(item, "id", NoneVal)
    IN  IF f = "selected_jobs" THEN Lookup(jobs, id)
        ELSE IF f = "selected_projects" THEN Lookup(projects, id)
        ELSE OrElse(Lookup(additional_experience_jobs, id), Lookup(jobs, id))

\* the bullet list a payload shows for the entry of a selection item (the
\* empty list when the payload has no entry for it)
ShownFor(payload_, f, item) ==
    LET list  == payload_[PayloadFieldOf(f)]
        key   == IF f = "selected_projects" THEN "name" ELSE "title"
        entry == EntryOfItem(f, item)
        shown == IF entry = NoEntry THEN NoEntry
                 ELSE EntryTitled(list, key, Get(entry, key, ""))
    IN  IF shown = NoEntry THEN <<>> ELSE shown.bullets

\* the selection without the items of field f that carry the given id
WithoutEntry(selection_, f, id) ==
    [g \in DOMAIN selection_ |->
        IF g = f
        THEN SelectSeq(selection_[g], LAMBDA item : Get(item, "id", NoneVal) # id)
        ELSE selection_[g]]

\* C22: group resolution is per entry: for any two distinct selected entries
\* (two jobs, two projects, or a job and a project, which may carry the same
\* id) the bullet list the payload shows for one is the list it would show if
\* the other were not selected.
C22_BulletsIndependentOfOtherEntries ==
    pc = "done" =>
        \A f1 \in SelectionFields \cap DOMAIN selection :
        \A f2 \in SelectionFields \cap DOMAIN selection :
            \A k1 \in DOMAIN selection[f1] : \A k2 \in DOMAIN selection[f2] :
                LET id1 == Get(selection[f1][k1], "id", NoneVal)
                    id2 == Get(selection[f2][k2], "id", NoneVal)
                IN  <<f1, id1>> # <<f2, id2>> =>
                        ShownFor(payload, f1, selection[f1][k1])
                          = ShownFor(build_payload(jobs, projects,
                                                   WithoutEntry(selection, f2, id2),
                                                   args.force_additional_experience,
                                                   additional_experience_jobs),
                                     f1, selection[f1][k1])

\* every item of the regular list has an id outside the additional-experience
\* id set and every item of the additional list has an id inside it
Partitioned(regular, additional) ==
    /\ \A k \in DOMAIN regular :
          ItemId(regular[k]) \notin AdditionalExperienceIds(additional_experience_jobs, args)
    /\ \A k \in DOMAIN additional :
          ItemId(additional[k]) \in AdditionalExperienceIds(additional_experience_jobs, args)

\* C23: at every point after partitioning, up to and including the selection
\* handed to build_payload, the regular list holds only ids outside the
\* additional-experience id set (the ids of the additional pool and the
\* manually forced ids) and the additional list only ids inside it.
C23_ListsStayPartitioned ==
    pc \notin {"gather", "select_experiences", "partition"} =>
        /\ Partitioned(regular_jobs, additional_experience_list)
        /\ selection # <<>> =>
              Partitioned(selection.selected_jobs,
                          Get(selection, "additional_experience", <<>>))

\* the data files the run was started on (the projects list is never changed
\* and differs from pool to pool)
LoadedPool == CHOOSE pool \in Pools : pool.projects = projects

\* C24 as stated: configuration only widens the pool sent to
\* select_experiences: under every combination of required job ids, append
\* flag and manual ids the pool handed to the oracle contains every entry of
\* the regular job pool.
C24_OraclePoolHoldsEveryRegularJobAsStated ==
    pc = "select_experiences" =>
        \A k \in DOMAIN LoadedPool.jobs : LoadedPool.jobs[k] \in Range(jobs_to_send)

\* C24 amended: the append flag and the manual ids only widen the pool sent to
\* select_experiences, the required job ids narrow it: the pool holds only
\* entries of the regular and the additional pool, and a regular job is in it
\* if and only if there are no required job ids or its id is one of them.
C24_OraclePoolHoldsEveryRegularJob ==
    pc = "select_experiences" =>
        /\ Range(jobs_to_send)
              \subseteq Range(LoadedPool.jobs) \cup Range(additional_experience_jobs)
        /\ \A k \in DOMAIN LoadedPool.jobs :
              LoadedPool.jobs[k] \in Range(jobs_to_send)
                  <=> \/ args.required_job_ids = <<>>
                      \/ LoadedPool.jobs[k].id \in Range(args.required_job_ids)

\* C24 witness: with required job ids the oracle is
\* handed one regular job and not another
C24_Witness ==
    /\ pc = "select_experiences"
    /\ args.required_job_ids # <<>>
    /\ \E k \in DOMAIN LoadedPool.jobs : LoadedPool.jobs[k] \in Range(jobs_to_send)
    /\ \E k \in DOMAIN LoadedPool.jobs : LoadedPool.jobs[k] \notin Range(jobs_to_send)

\* the positions of the call log that hold a call of the given operation
CallsOf(op) == {k \in DOMAIN calls : calls[k].op = op}

\* the run has ended: main returned or an exception left it
Ended == pc \in {"done", "aborted"}

\* the oracle calls made so far are in the claimed order, none of them made
\* twice: select_experiences first, select_projects after it, and every
\* rank_bullets call about a required id, one call at most per id on each
\* side of the select_projects call
CallsInOrderWithoutRetry ==
    /\ Cardinality(CallsOf("select_experiences")) <= 1
    /\ Cardinality(CallsOf("select_projects")) <= 1
    /\ calls # <<>> => calls[1].op = "select_experiences"
    /\ \A k \in CallsOf("rank_bullets") :
          LET after == \E p \in CallsOf("select_projects") : p < k
          IN  /\ calls[k].about \in Range(IF after THEN args.required_project_ids
                                                  ELSE args.required_job_ids)
              /\ \A m \in CallsOf("rank_bullets") :
                    (m # k /\ calls[m].about = calls[k].about)
                        => (after <=> ~(\E p \in CallsOf("select_projects") : p < m))

\* C25: in every run select_experiences is invoked exactly once and
\* select_projects exactly once, in that order, rank_bullets at most once per
\* required id, no call is made again, and no oracle outcome keeps a later
\* call from being made: a run that has ended has made both selection calls.
C25_EachSelectionCallExactlyOnce ==
    /\ CallsInOrderWithoutRetry
    /\ Ended => /\ Cardinality(CallsOf("select_experiences")) = 1
                /\ Cardinality(CallsOf("select_projects")) = 1

\* the items of a list whose entry exists and whose indices are integers are
\* backfilled to the floor: _fill_bullets_to_minimum leaves them as they are
BackfilledTo(items, entries, floor) ==
    \A k \in DOMAIN items :
        (entries[k] # NoEntry /\ ~HasNonInteger(ItemIndices(items[k])))
            => _fill_bullets_to_minimum(entries[k], ItemIndices(items[k]), floor)
                   = ItemIndices(items[k])

\* C26: backfill precedes truncation: when truncation runs, every regular
\* item (selected by the oracle, required, or a top-up) has been backfilled to
\* the floor 4 and every additional item to the floor 3.
C26_BackfilledBeforeTruncation ==
    pc = "truncate" =>
        /\ BackfilledTo(regular_jobs,
                        [k \in DOMAIN regular_jobs |->
                            Lookup(jobs, ItemId(regular_jobs[k]))], 4)
        /\ BackfilledTo(additional_experience_list,
                        [k \in DOMAIN additional_experience_list |->
                            OrElse(Lookup(additional_experience_jobs,
                                          ItemId(additional_experience_list[k])),
                                   Lookup(jobs, ItemId(additional_experience_list[k])))],
                        3)

\* C27: for every pool (bullets given as objects with a missing or an empty
\* text included) and every selection, no bullet text of an entry of the
\* final payload is empty.
C27_NoEmptyBulletInPayload ==
    pc = "done" =>
        \A f \in {"experience", "projects", "additional_experience"} :
            \A i \in DOMAIN payload[f] :
                \A b \in DOMAIN payload[f][i].bullets : payload[f][i].bullets[b] # ""

\* the entry contributes its header and its bullets to the text: the header
\* line of the entry and an item line for each of its bullets that is not
\* empty are lines of the text
Contributes(text, entry, name_field) ==
    /\ \E k \in DOMAIN text :
          text[k] = [kind |-> "header", text |-> entry[name_field],
                     date_part |-> DatePart(entry.start_date, entry.end_date)]
    /\ \A b \in DOMAIN entry.bullets :
          entry.bullets[b] # "" => \E k \in DOMAIN text :
                                       text[k] = Line("item", entry.bullets[b])

\* C28: every entry of the payload's additional_experience list, like those
\* of the experience and the projects list, contributes its header and its
\* bullets to the text render_resume_latex returns for a template with
\* placeholders.
C28_AdditionalExperienceRendered ==
    pc = "done" =>
        /\ \A i \in DOMAIN payload.experience :
              Contributes(ret, payload.experience[i], "title")
        /\ \A i \in DOMAIN payload.projects :
              Contributes(ret, payload.projects[i], "name")
        /\ \A i \in DOMAIN payload.additional_experience :
              Contributes(ret, payload.additional_experience[i], "title")

\* C29: gathering the pool leaves the regular job pool unchanged under every
\* configuration: the jobs list used by the later steps holds exactly the
\* entries loaded from the regular job data.
C29_GatherLeavesJobsUnchanged ==
    pc # "gather" => jobs = LoadedPool.jobs

\* no text occurs twice in the list (the bullets of an entry of the pools
\* have different texts, so a text shown twice is an original bullet shown
\* twice)
NoRepeat(texts) ==
    \A i \in DOMAIN texts : \A j \in DOMAIN texts : i # j => texts[i] # texts[j]

\* C30: for every pool and every oracle response (a bullet_indices list that
\* repeats an index included) no entry of the payload shows the same original
\* bullet of that entry more than once.
C30_NoBulletShownTwice ==
    pc = "done" =>
        \A f \in {"experience", "projects", "additional_experience"} :
            \A i \in DOMAIN payload[f] : NoRepeat(payload[f][i].bullets)

====
